---- MODULE Spec2Model ----
(***************************************************************************)
(* FEED -> Jetshop synchronisation: the per-product state machine of       *)
(* SyncEngine.sync (src/src/sync_engine.py), the desired-state builder it  *)
(* calls, the diff engine (src/src/diff_engine.py), the checkpoint store   *)
(* (src/src/state_store.py) and the destination as seen through            *)
(* JetshopClient (src/src/jetshop_client.py).                              *)
(*                                                                         *)
(* Python values are records [t, s, n, l]: t is the type tag, s the string *)
(* payload, n the integer payload, l the list payload.  A Python dict that *)
(* is a feed attribute is the tag "dict": n = 1 iff the key "value" is in  *)
(* it, and l = <<value>>.  Text is a TLA+ string; str.strip, str.lower and *)
(* the substring test are tables over the strings the model uses.          *)
(***************************************************************************)
EXTENDS Integers, Sequences, FiniteSets, TLC

VARIABLES
  mapping,      \* the MappingConfig the process loaded
  catalog,      \* the product documents the feed can return
  feed_changed, \* the times at which the feed changed while a run was going
  dest,         \* destination state: productNo -> product data, dynamic fields, price lists
  checkpoint,   \* StateStore: contents of last_run.json (0: no file)
  clock,        \* wall clock, a logical time
  runs,         \* number of sync runs started
  pc,           \* "start" | "mapping_invalid" | "validated" | "idle" | "loop" | "done" |
                \* "raised" | "fetch_failed" | "exit"
  export_from,  \* sync(): export_from
  dry_run,      \* sync(): dry_run
  started_at,   \* sync(): started_at
  products,     \* sync(): products, the batch fetch_products returned
  idx,          \* number of products of the batch the loop has handled
  results,      \* sync(): results
  counts,       \* sync(): counts
  calls,        \* destination calls issued in this run, in order
  last,         \* locals of the handler for the product handled last
  report,       \* the report sync() returned
  mapping_file, \* the mapping document main() loads; NoFile where the
                \* specification starts after the load
  call          \* a function of the engine called on its own: name, arguments, result

vars == <<mapping, catalog, feed_changed, dest, checkpoint, clock, runs, pc, export_from,
          dry_run, started_at, products, idx, results, counts, calls, last, report,
          mapping_file, call>>

-----------------------------------------------------------------------------
(* Bounds *)

\* the largest number of retries request_with_retry is called with
MaxRetries == 3

\* the largest number of pages fetch_products is followed over
MaxPages == 3

\* feed changes per behaviour
MaxFeedChanges == 2

\* products per batch in the batch-level specification
MaxProducts == 2
\* products per batch in the product-level specification
MaxDetailProducts == 1
\* sync runs per behaviour
MaxRuns == 2
\* results in one dyn_save response
MaxDynResults == 2

-----------------------------------------------------------------------------
(* Python values *)

None == [t |-> "none", s |-> "", n |-> 0, l |-> <<>>]
Str(x) == [t |-> "str", s |-> x, n |-> 0, l |-> <<>>]
IntV(k) == [t |-> "int", s |-> "", n |-> k, l |-> <<>>]
Bool(b) == [t |-> "bool", s |-> "", n |-> IF b THEN 1 ELSE 0, l |-> <<>>]
List(q) == [t |-> "list", s |-> "", n |-> 0, l |-> q]
Decimal(k) == [t |-> "decimal", s |-> "", n |-> k, l |-> <<>>]
\* a feed attribute {"importCode": code, ["value": value]}
AttrDict(code, hasValue, value) ==
  [t |-> "dict", s |-> code, n |-> IF hasValue THEN 1 ELSE 0, l |-> <<value>>]

\* dict.get(key) on a TLA+ function used as a dict
DictGet(d, k) == IF k \in DOMAIN d THEN d[k] ELSE None

EmptyDict == [k \in {} |-> None]

\* type(value).__name__
TypeName(value) ==
  CASE value.t = "str" -> "str"
    [] value.t = "int" -> "int"
    [] value.t = "bool" -> "bool"
    [] value.t = "list" -> "list"
    [] value.t = "dict" -> "dict"
    [] value.t = "decimal" -> "Decimal"
    [] OTHER -> "NoneType"

\* str.strip() on the strings of the model
Strip(x) ==
  CASE x = " " -> ""
    [] x = " TRUE " -> "TRUE"
    [] OTHER -> x

\* str.lower() on the strings of the model
Lower(x) ==
  CASE x = "TRUE" -> "true"
    [] x = "True" -> "true"
    [] x = "False" -> "false"
    [] x = "No dynamic field, connected to product, found with key." ->
         "no dynamic field, connected to product, found with key."
    [] x = "Dynamic field is not connected to product" ->
         "dynamic field is not connected to product"
    [] x = "Invalid value" -> "invalid value"
    [] OTHER -> x

\* needle in text, for lower-case texts of the model
Contains(text, needle) ==
  CASE needle = "no dynamic field" ->
         text = "no dynamic field, connected to product, found with key."
    [] needle = "connected to product" ->
         text \in {"no dynamic field, connected to product, found with key.",
                   "dynamic field is not connected to product"}
    [] needle = "not connected to product" ->
         text = "dynamic field is not connected to product"
    [] OTHER -> FALSE

\* str(value) for the integers of the model
IntText(k) ==
  CASE k = 0 -> "0"
    [] k = 5 -> "5"
    [] k = 7 -> "7"
    [] k = 10 -> "10"
    [] OTHER -> "n"

\* float(text): the texts of the model that parse as a number
NumericTexts == {"0", "5", "7", "10"}
TextInt(x) ==
  CASE x = "0" -> 0
    [] x = "5" -> 5
    [] x = "7" -> 7
    [] OTHER -> 10

\* str(value)
PyStr(value) ==
  CASE value.t = "str" -> value.s
    [] value.t \in {"int", "float", "decimal"} -> IntText(value.n)
    [] value.t = "bool" -> (IF value.n = 1 THEN "True" ELSE "False")
    [] value.t = "none" -> "None"
    [] OTHER -> "<" \o value.t \o ">"

\* texts datetime.fromisoformat / date.fromisoformat accept
IsoTexts == {"2026-01-19T00:00:00", "2026-01-26T00:00:00"}

-----------------------------------------------------------------------------
(* validator.py *)

is_empty(value) ==
  \/ value.t = "none"
  \/ value.t = "str" /\ Strip(value.s) = ""
  \/ value.t = "list" /\ value.l = <<>>

\* The outcome of coerce_value: a value, a ValidationError (message), or an
\* exception of another type that the function does not catch.
Coerced(value) == [kind |-> "value", value |-> value, message |-> ""]
Invalid(message) == [kind |-> "ValidationError", value |-> None, message |-> message]
Uncaught(message) == [kind |-> "raise", value |-> None, message |-> message]

RECURSIVE coerce_items(_, _, _)
coerce_value(value, expected_type, policy, item_type) ==
  IF value.t = "none" THEN Coerced(None)
  ELSE CASE expected_type = "string" ->
         IF value.t = "str" THEN Coerced(value)
         ELSE IF policy = "coerce"
           THEN Coerced(Str(PyStr(value)))
           ELSE Invalid("expected string, got " \o TypeName(value))
    [] expected_type = "int" ->
         IF value.t = "bool" THEN Invalid("bool is not int")
         ELSE IF value.t = "int" THEN Coerced(value)
         ELSE IF policy = "coerce"
           THEN \* int(float(value)): ValueError is caught, TypeError is not
                IF value.t = "str"
                  THEN IF value.s \in NumericTexts
                         THEN Coerced(IntV(TextInt(value.s)))
                         ELSE Invalid("could not convert string to float")
                  ELSE IF value.t \in {"decimal", "float"} THEN Coerced(IntV(value.n))
                  ELSE Uncaught("float() argument must be a string or a real number")
           ELSE Invalid("expected int, got " \o TypeName(value))
    [] expected_type = "float" ->
         IF value.t \in {"int", "float"} THEN Coerced([value EXCEPT !.t = "float"])
         ELSE IF policy = "coerce"
           THEN IF value.t = "str"
                  THEN IF value.s \in NumericTexts
                         THEN Coerced([IntV(TextInt(value.s)) EXCEPT !.t = "float"])
                         ELSE Invalid("could not convert string to float")
                  ELSE IF value.t \in {"decimal", "bool"}
                         THEN Coerced([value EXCEPT !.t = "float"])
                  ELSE Uncaught("float() argument must be a string or a real number")
           ELSE Invalid("expected float, got " \o TypeName(value))
    [] expected_type = "decimal" ->
         IF value.t = "decimal" THEN Coerced(value)
         ELSE IF policy = "coerce"
           THEN \* Decimal(str(value)): InvalidOperation is caught
                IF value.t \in {"int", "float"} THEN Coerced(Decimal(value.n))
                ELSE IF value.t = "str" /\ value.s \in NumericTexts
                  THEN Coerced(Decimal(TextInt(value.s)))
                ELSE Invalid("ConversionSyntax")
           ELSE Invalid("expected decimal, got " \o TypeName(value))
    [] expected_type = "bool" ->
         IF value.t = "bool" THEN Coerced(value)
         ELSE IF policy = "coerce" /\ value.t = "str"
                 /\ Lower(Strip(value.s)) \in {"true", "1", "yes"}
           THEN Coerced(Bool(TRUE))
         ELSE IF policy = "coerce" /\ value.t = "str"
                 /\ Lower(Strip(value.s)) \in {"false", "0", "no"}
           THEN Coerced(Bool(FALSE))
         ELSE IF policy = "coerce" /\ value.t = "int"
           THEN Coerced(Bool(value.n # 0))
         ELSE Invalid("expected bool, got " \o TypeName(value))
    [] expected_type \in {"date", "datetime"} ->
         IF value.t = expected_type THEN Coerced(value)
         ELSE IF policy = "coerce"
           THEN \* _parse_date / _parse_datetime: every failure is a ValueError
                IF value.t = "str" /\ value.s \in IsoTexts
                  THEN Coerced([value EXCEPT !.t = expected_type])
                ELSE IF value.t = "str" THEN Invalid("Invalid isoformat string")
                ELSE Invalid("invalid " \o expected_type \o " value")
           ELSE Invalid("expected " \o expected_type \o ", got " \o TypeName(value))
    [] expected_type = "list" ->
         IF value.t = "list"
           THEN IF item_type # "" THEN coerce_items(value.l, item_type, policy)
                ELSE Coerced(value)
           ELSE IF policy = "coerce" THEN Coerced(List(<<value>>))
           ELSE Invalid("expected list, got " \o TypeName(value))
    [] OTHER -> Invalid("unknown expected type: " \o expected_type)

\* one item and the rest of the list, coerced: the first exception raised by
\* an item leaves the comprehension
ConsCoerced(head, tail) ==
  IF head.kind # "value" THEN head
  ELSE IF tail.kind # "value" THEN tail
  ELSE Coerced(List(<<head.value>> \o tail.value.l))

\* [coerce_value(item, item_type, policy) for item in value]
coerce_items(items, item_type, policy) ==
  IF items = <<>> THEN Coerced(List(<<>>))
  ELSE ConsCoerced(coerce_value(Head(items), item_type, policy, ""),
                   coerce_items(Tail(items), item_type, policy))

-----------------------------------------------------------------------------
(* mapping_loader.py: the mapping model *)

\* parse_source_selector("attributes[<key>]") and ("attributes[<key>].<path>"):
\* a selector is kept parsed, as (root, key, path)
Selector(root, key, path) == [root |-> root, key |-> key, path |-> path]
\* source = None
NoSource == Selector("", "", <<>>)

Cultures == <<"sv-SE", "nb-NO">>

\* FieldMapping with the defaults of _parse_mapping_entry; no transforms and no
\* validations are declared
FieldMapping(target, source, type, coerce, optional) ==
  [target |-> target, source |-> source, source_by_culture |-> EmptyDict,
   fallback_by_culture |-> EmptyDict, cultures |-> {}, type |-> type,
   item_type |-> "", coerce |-> coerce, optional |-> optional,
   preserve_if_missing |-> FALSE, allow_empty |-> FALSE]

\* DynamicFieldMapping with the defaults of _parse_mapping_entry
DynamicFieldMapping(key, source, type, coerce, optional) ==
  [key |-> key, source |-> source, source_by_culture |-> EmptyDict,
   fallback_by_culture |-> EmptyDict, cultures |-> {}, type |-> type,
   item_type |-> "", coerce |-> coerce, optional |-> optional, allow_empty |-> FALSE]

CategoryMapping(source, coerce, optional) ==
  [source |-> source, type |-> "list", item_type |-> "", coerce |-> coerce,
   strategy |-> "replace", optional |-> optional]

PriceListMapping(id, price_source, discounted, hide, clear, coerce, optional) ==
  [name |-> "", price_list_id |-> id, price_source |-> price_source,
   discounted_price_source |-> discounted, discount_period_source |-> NoSource,
   hide_product_source |-> hide, clear_discount_on_missing |-> clear,
   type |-> "int", coerce |-> coerce, optional |-> optional]

\* A mapping load_mapping accepts, with one entry per section.
BaseMapping ==
  [cultures |-> Cultures,
   product_fields |->
     <<FieldMapping("Name", Selector("attributes", "name", <<>>), "string", "strict", FALSE)>>,
   stock_fields |->
     <<FieldMapping("NewStockCount", Selector("attributes", "stock", <<>>), "int",
                    "strict", TRUE)>>,
   category_fields |-> CategoryMapping(Selector("attributes", "cat", <<"value">>), "strict", TRUE),
   dynamic_fields_allowlist |->
     <<DynamicFieldMapping("atr_colour", Selector("attributes", "atr_colour", <<>>),
                           "string", "strict", TRUE)>>,
   price_lists |->
     <<PriceListMapping("PL1", Selector("attributes", "price", <<>>), NoSource, NoSource,
                        FALSE, "coerce", TRUE)>>]

\* As BaseMapping, with the Name entry given by source_by_culture for the first
\* culture only and no plain source: it passes _parse_mapping_entry.
ByCultureMapping ==
  [BaseMapping EXCEPT
     !.product_fields =
       <<[FieldMapping("Name", NoSource, "string", "strict", FALSE) EXCEPT
            !.source_by_culture = ("sv-SE" :> Selector("attributes", "name", <<>>))]>>]

\* As BaseMapping, without dynamic fields and price lists.
PlainMapping ==
  [BaseMapping EXCEPT !.dynamic_fields_allowlist = <<>>, !.price_lists = <<>>]

\* As BaseMapping, with the lenient policy on Name and a required price.
LenientMapping ==
  [BaseMapping EXCEPT
     !.product_fields =
       <<FieldMapping("Name", Selector("attributes", "name", <<>>), "string", "coerce", FALSE)>>,
     !.price_lists =
       <<PriceListMapping("PL1", Selector("attributes", "price", <<>>), NoSource, NoSource,
                          TRUE, "strict", FALSE)>>]

Mappings == {BaseMapping, ByCultureMapping, PlainMapping, LenientMapping}

-----------------------------------------------------------------------------
(* sync_engine.py: the desired-state builder *)

\* attributes_by_code of _build_desired: the product keeps its attributes by code
attributes_by_code(product) == product.attributes

\* dict.get(segment) on a feed attribute
AttrGet(value, segment) ==
  IF value.t # "dict" THEN None
  ELSE IF segment = "value" /\ value.n = 1 THEN value.l[1]
  ELSE IF segment = "importCode" THEN Str(value.s)
  ELSE None

RECURSIVE WalkPath(_, _)
WalkPath(value, path) ==
  IF path = <<>> THEN value
  ELSE IF value.t = "dict" THEN WalkPath(AttrGet(value, Head(path)), Tail(path))
  ELSE None

\* returns (value, attribute); the products of the model carry no texts
_resolve_source(source, product) ==
  IF source.root = "attributes"
    THEN LET attribute == DictGet(attributes_by_code(product), source.key)
         IN IF attribute = None THEN [value |-> None, attribute |-> None]
            ELSE [value |-> WalkPath(attribute, source.path), attribute |-> attribute]
    ELSE [value |-> None, attribute |-> None]

\* returns the source, or raises ValueError
_select_source(entry, culture) ==
  LET by == entry.source_by_culture
      fallback == IF entry.fallback_by_culture # EmptyDict /\ culture \in DOMAIN entry.fallback_by_culture
                    THEN entry.fallback_by_culture[culture] ELSE ""
  IN IF by # EmptyDict /\ culture # "" /\ culture \in DOMAIN by
       THEN [raised |-> FALSE, source |-> by[culture]]
     ELSE IF by # EmptyDict /\ culture # "" /\ fallback # "" /\ fallback \in DOMAIN by
       THEN [raised |-> FALSE, source |-> by[fallback]]
     ELSE IF entry.source # NoSource
       THEN [raised |-> FALSE, source |-> entry.source]
     ELSE [raised |-> TRUE, source |-> NoSource]

_attribute_value_removed(source, attribute) ==
  IF attribute = None THEN FALSE
  ELSE IF source.root # "attributes" THEN FALSE
  ELSE IF attribute.n = 0 THEN TRUE
  ELSE is_empty(attribute.l[1])

NIL_VALUE == [t |-> "nil", s |-> "", n |-> 0, l |-> <<>>]

_empty_value_for_type(expected_type, allow_nil) ==
  IF expected_type = "string" THEN Str("")
  ELSE IF expected_type = "list" THEN List(<<>>)
  ELSE IF allow_nil /\ expected_type \in {"date", "datetime"} THEN NIL_VALUE
  ELSE None

\* the except clause of _coerce_with_policy, on the outcome c of coerce_value;
\* raised: an exception other than ValidationError left coerce_value
PolicyResult(c, value, policy, field_name, errors) ==
  IF c.kind = "value" THEN [raised |-> FALSE, value |-> c.value, errors |-> errors]
  ELSE IF c.kind = "raise" THEN [raised |-> TRUE, value |-> None, errors |-> errors]
  ELSE IF policy = "coerce" THEN [raised |-> FALSE, value |-> value, errors |-> errors]
  ELSE [raised |-> FALSE, value |-> None,
        errors |-> Append(errors, field_name \o ": " \o c.message)]

\* returns the value (None on failure) and the errors
_coerce_with_policy(value, expected_type, policy, item_type, field_name, errors) ==
  IF value = None THEN [raised |-> FALSE, value |-> None, errors |-> errors]
  ELSE PolicyResult(coerce_value(value, expected_type, policy, item_type), value, policy,
                    field_name, errors)

\* `if entry.optional or entry.preserve_if_missing: return None`, else the error
MissingOrError(name, lenient, message, errors) ==
  IF lenient THEN [raised |-> FALSE, value |-> None, errors |-> errors]
  ELSE [raised |-> FALSE, value |-> None, errors |-> Append(errors, name \o message)]

\* `value = value["value"]` for an attribute's wrapped value.  No product of the
\* model carries a localized (dict) value, no entry a transform or validation.
Unwrapped(resolved) ==
  IF resolved.attribute # None /\ resolved.value.t = "dict" /\ resolved.value.n = 1
    THEN resolved.value.l[1] ELSE resolved.value

\* the emptiness test after coercion
AfterCoerce(entry, name, lenient, c) ==
  IF c.raised THEN c
  ELSE IF ~entry.allow_empty /\ is_empty(c.value)
    THEN MissingOrError(name, lenient, ": empty value not allowed", c.errors)
  ELSE c

\* the emptiness test before coercion, and the coercion
CoerceEntry(entry, name, lenient, value, errors) ==
  IF ~entry.allow_empty /\ is_empty(value)
    THEN MissingOrError(name, lenient, ": missing required value", errors)
  ELSE AfterCoerce(entry, name, lenient,
                   _coerce_with_policy(value, entry.type, entry.coerce, entry.item_type,
                                       name, errors))

\* The part _apply_mapping_entry and _apply_dynamic_mapping share, after the
\* removed-value test.  name is entry.target or entry.key.
ResolveEntry(entry, name, lenient, resolved, errors) ==
  CoerceEntry(entry, name, lenient, Unwrapped(resolved), errors)

\* _apply_mapping_entry once the source is selected and resolved
MappingEntryFrom(entry, sel, resolved, errors, allow_nil) ==
  IF sel.raised THEN [raised |-> TRUE, value |-> None, errors |-> errors]
  ELSE IF _attribute_value_removed(sel.source, resolved.attribute)
    THEN IF _empty_value_for_type(entry.type, allow_nil) # None
           THEN [raised |-> FALSE, value |-> _empty_value_for_type(entry.type, allow_nil),
                 errors |-> errors]
           ELSE MissingOrError(entry.target, entry.optional \/ entry.preserve_if_missing,
                               ": missing required value", errors)
  ELSE ResolveEntry(entry, entry.target, entry.optional \/ entry.preserve_if_missing,
                    resolved, errors)

\* the source selected for the culture, resolved on the product
Resolved(sel, product) == _resolve_source(sel.source, product)

SelectedAndResolved(entry, sel, product, errors, allow_nil) ==
  MappingEntryFrom(entry, sel, Resolved(sel, product), errors, allow_nil)

_apply_mapping_entry(entry, product, culture, errors, allow_nil) ==
  SelectedAndResolved(entry, _select_source(entry, culture), product, errors, allow_nil)

\* _apply_dynamic_mapping once the source is selected and resolved
DynamicEntryFrom(entry, sel, resolved, errors) ==
  IF sel.raised THEN [raised |-> TRUE, value |-> None, errors |-> errors]
  ELSE IF _attribute_value_removed(sel.source, resolved.attribute)
    THEN [raised |-> FALSE, value |-> Str(""), errors |-> errors]
  ELSE ResolveEntry(entry, entry.key, entry.optional, resolved, errors)

DynamicSelected(entry, sel, product, errors) ==
  DynamicEntryFrom(entry, sel, Resolved(sel, product), errors)

_apply_dynamic_mapping(entry, product, culture, errors) ==
  DynamicSelected(entry, _select_source(entry, culture), product, errors)

\* [str(item) for item in value], or [str(value)]
CategoryIds(c) ==
  [raised |-> c.raised, none |-> FALSE,
   ids |-> IF c.value.t = "list"
             THEN [i \in 1..Len(c.value.l) |-> PyStr(c.value.l[i])]
             ELSE <<PyStr(c.value)>>,
   errors |-> c.errors]

\* categories: none is the Python None
CategoriesFrom(category_mapping, raw_value, errors) ==
  IF raw_value = None
    THEN IF category_mapping.optional
           THEN [raised |-> FALSE, none |-> TRUE, ids |-> <<>>, errors |-> errors]
           ELSE [raised |-> FALSE, none |-> FALSE, ids |-> <<>>,
                 errors |-> Append(errors, "Category mapping missing required value")]
    ELSE CategoryIds(_coerce_with_policy(raw_value, category_mapping.type,
                                         category_mapping.coerce, category_mapping.item_type,
                                         "categories", errors))

_extract_categories(category_mapping, product, errors) ==
  CategoriesFrom(category_mapping, _resolve_source(category_mapping.source, product).value,
                 errors)

\* `raw.get("value") if isinstance(raw, dict) else raw`
ValueOf(raw) == IF raw.t = "dict" THEN AttrGet(raw, "value") ELSE raw

\* One iteration of the loop of _build_price_list_items: skip (continue) or an item.
\* No modelled mapping configures discount_period_source.
PriceListItem(entry, product_no, product, errors) ==
  LET label == IF entry.name # "" THEN entry.name ELSE entry.price_list_id
      NoValue(at) == [raised |-> FALSE, value |-> None, errors |-> at]
      Skip(raised, at) == [raised |-> raised, skip |-> TRUE, item |-> EmptyDict, errors |-> at]
      \* the HideProduct flag: not bool(show_bool); a value the lenient policy
      \* passed through is truthy
      Shown(disc_raised, with_discount, show) ==
        [raised |-> disc_raised \/ show.raised, skip |-> FALSE,
         item |-> IF show.value # None
                    THEN ("HideProduct" :>
                            Bool(IF show.value.t \in {"bool", "int"} THEN show.value.n = 0
                                 ELSE is_empty(show.value))) @@ with_discount
                    ELSE with_discount,
         errors |-> show.errors]
      ShowFrom(show_value, at) ==
        IF entry.hide_product_source # NoSource /\ ~is_empty(show_value)
          THEN _coerce_with_policy(show_value, "bool", entry.coerce, "", label \o "_hide", at)
          ELSE NoValue(at)
      Discounted(base, empty_discount, disc) ==
        Shown(disc.raised,
              IF entry.discounted_price_source # NoSource
                THEN IF empty_discount
                       THEN IF entry.clear_discount_on_missing
                              THEN ("DiscountedPriceIncVat" :> IntV(-1)) @@ base ELSE base
                       ELSE IF disc.value # None
                              THEN ("DiscountedPriceIncVat" :> disc.value) @@ base ELSE base
                ELSE IF entry.clear_discount_on_missing
                       THEN ("DiscountedPriceIncVat" :> IntV(-1)) @@ base ELSE base,
              ShowFrom(ValueOf(_resolve_source(entry.hide_product_source, product).value),
                       disc.errors))
      DiscountFrom(base, disc_value, empty_discount, at) ==
        Discounted(base, empty_discount,
                   IF entry.discounted_price_source # NoSource /\ ~empty_discount
                     THEN _coerce_with_policy(disc_value, entry.type, entry.coerce, "",
                                              label \o "_discount", at)
                     ELSE NoValue(at))
      EmptyDiscount(disc_value) ==
        \/ is_empty(disc_value)
        \/ /\ entry.clear_discount_on_missing
           /\ \/ disc_value.t \in {"int", "float", "bool"} /\ disc_value.n = 0
              \/ disc_value.t = "str" /\ Strip(disc_value.s) \in {"0", "0.0", "0.00"}
      WithDiscountValue(base, disc_value, at) ==
        DiscountFrom(base, disc_value, EmptyDiscount(disc_value), at)
      Priced(price) ==
        IF price.raised \/ price.value = None THEN Skip(price.raised, price.errors)
        ELSE WithDiscountValue(
               "ArticleNumber" :> Str(product_no) @@ "PriceListId" :> Str(entry.price_list_id)
                 @@ "PriceIncVat" :> price.value,
               ValueOf(_resolve_source(entry.discounted_price_source, product).value),
               price.errors)
      FromValue(value) ==
        IF is_empty(value)
          THEN Skip(FALSE, IF entry.optional THEN errors
                           ELSE Append(errors, "price_list:" \o entry.price_list_id
                                               \o " missing price"))
          ELSE Priced(_coerce_with_policy(value, entry.type, entry.coerce, "", label, errors))
  IN FromValue(ValueOf(_resolve_source(entry.price_source, product).value))

RECURSIVE _build_price_list_items(_, _, _, _)
_build_price_list_items(entries, product_no, product, errors) ==
  LET Cons(one, rest) ==
        [raised |-> rest.raised,
         items |-> (IF one.skip THEN <<>> ELSE <<one.item>>) \o rest.items,
         errors |-> rest.errors]
      From(one) ==
        IF one.raised THEN [raised |-> TRUE, items |-> <<>>, errors |-> one.errors]
        ELSE Cons(one, _build_price_list_items(Tail(entries), product_no, product, one.errors))
  IN IF entries = <<>> THEN [raised |-> FALSE, items |-> <<>>, errors |-> errors]
     ELSE From(PriceListItem(Head(entries), product_no, product, errors))

\* data[target] = value
DictSet(d, k, value) == [x \in DOMAIN d \cup {k} |-> IF x = k THEN value ELSE d[x]]

\* the loop over mapping.product_fields (culture given) or mapping.stock_fields
\* (culture "", allow_nil) of _build_desired
RECURSIVE FieldsLoop(_, _, _, _, _)
FieldsLoop(entries, product, culture, allow_nil, acc) ==
  LET Put(target, r) ==
        [raised |-> r.raised, errors |-> r.errors,
         data |-> IF r.value = None THEN acc.data ELSE DictSet(acc.data, target, r.value)]
      Step(entry) ==
        IF culture # "" /\ entry.cultures # {} /\ culture \notin entry.cultures
          THEN FieldsLoop(Tail(entries), product, culture, allow_nil, acc)
          ELSE FieldsLoop(Tail(entries), product, culture, allow_nil,
                          Put(entry.target,
                              _apply_mapping_entry(entry, product, culture, acc.errors,
                                                   allow_nil)))
  IN IF entries = <<>> \/ acc.raised THEN acc
     ELSE Step(Head(entries))

\* the loop over the cultures of _build_desired, lines 316-334
RECURSIVE CulturesLoop(_, _, _, _, _)
CulturesLoop(cultures, m, product, product_no, acc) ==
  LET Put(culture, r) ==
        [raised |-> r.raised, errors |-> r.errors, by |-> DictSet(acc.by, culture, r.data)]
      Step(culture) ==
        CulturesLoop(Tail(cultures), m, product, product_no,
          Put(culture,
              FieldsLoop(m.product_fields, product, culture, FALSE,
                [raised |-> FALSE, errors |-> acc.errors,
                 data |-> ("ArticleNumber" :> Str(product_no) @@ "Culture" :> Str(culture))])))
  IN IF cultures = <<>> \/ acc.raised THEN acc
     ELSE Step(Head(cultures))

\* the loops over mapping.dynamic_fields_allowlist and the entry's cultures,
\* lines 362-378; acc.fields is dynamic_fields: key -> culture -> value
RECURSIVE DynamicCultures(_, _, _, _)
DynamicCultures(entry, cultures, product, acc) ==
  LET Put(culture, r) ==
        [raised |-> r.raised, errors |-> r.errors,
         fields |-> IF r.value = None THEN acc.fields
                    ELSE DictSet(acc.fields, entry.key,
                                 DictSet(IF entry.key \in DOMAIN acc.fields
                                           THEN acc.fields[entry.key] ELSE EmptyDict,
                                         culture, r.value))]
      Step(culture) ==
        DynamicCultures(entry, Tail(cultures), product,
                        Put(culture, _apply_dynamic_mapping(entry, product, culture, acc.errors)))
  IN IF cultures = <<>> \/ acc.raised THEN acc
     ELSE Step(Head(cultures))

\* entry.cultures or mapping.cultures
EntryCultures(entry, m) ==
  IF entry.cultures = {} THEN m.cultures
  ELSE SelectSeq(m.cultures, LAMBDA c : c \in entry.cultures)

RECURSIVE DynamicLoop(_, _, _, _)
DynamicLoop(entries, m, product, acc) ==
  IF entries = <<>> \/ acc.raised THEN acc
  ELSE DynamicLoop(Tail(entries), m, product,
         DynamicCultures(Head(entries), EntryCultures(Head(entries), m), product, acc))

\* returns raised (an exception left the builder) or the errors and
\* (desired_by_culture, stock_data, categories, dynamic_fields, price_lists);
\* dynamic_fields_auto_map is disabled in the modelled mappings
_build_desired(m, product, product_no) ==
  LET Aborted(errors) ==
        [raised |-> TRUE, errors |-> errors, desired_by_culture |-> EmptyDict,
         stock_data |-> EmptyDict, categories |-> [none |-> TRUE, ids |-> <<>>],
         dynamic_fields |-> EmptyDict, price_lists |-> <<>>]
      Built(fields, stock, cats, dyn, prices) ==
        [raised |-> prices.raised,
         errors |-> prices.errors,
         desired_by_culture |-> fields.by,
         stock_data |-> stock.data,
         categories |-> [none |-> cats.none, ids |-> cats.ids],
         dynamic_fields |-> dyn.fields,
         price_lists |-> prices.items]
      FromDynamic(fields, stock, cats, dyn) ==
        IF dyn.raised THEN Aborted(<<>>)
        ELSE Built(fields, stock, cats, dyn,
                   _build_price_list_items(m.price_lists, product_no, product, dyn.errors))
      FromCategories(fields, stock, cats) ==
        IF cats.raised THEN Aborted(<<>>)
        ELSE FromDynamic(fields, stock, cats,
                         DynamicLoop(m.dynamic_fields_allowlist, m, product,
                           [raised |-> FALSE, errors |-> cats.errors, fields |-> EmptyDict]))
      FromStock(fields, stock) ==
        IF stock.raised THEN Aborted(<<>>)
        ELSE FromCategories(fields, stock,
                            _extract_categories(m.category_fields, product, stock.errors))
      FromFields(fields) ==
        IF fields.raised THEN Aborted(<<>>)
        ELSE FromStock(fields,
                       FieldsLoop(m.stock_fields, product, "", TRUE,
                         [raised |-> FALSE, errors |-> fields.errors, data |-> EmptyDict]))
  IN FromFields(CulturesLoop(m.cultures, m, product, product_no,
                             [raised |-> FALSE, errors |-> <<>>, by |-> EmptyDict]))

-----------------------------------------------------------------------------
(* diff_engine.py *)

NumericTags == {"int", "float", "decimal", "bool"}

\* Python ==: numbers compare by value across int, float, Decimal and bool
PyEq(a, b) == IF a.t \in NumericTags /\ b.t \in NumericTags THEN a.n = b.n ELSE a = b

_normalize(value) ==
  CASE value.t = "none" -> None
    [] value.t = "decimal" -> Str(IntText(value.n) \o ".0000")
    [] value.t \in {"int", "float"} -> Decimal(value.n)
    [] value.t \in {"date", "datetime"} -> Str(value.s)
    [] OTHER -> value

DiffItem(target_field, old_value, new_value, culture, section) ==
  [culture |-> culture, target_field |-> target_field, old_value |-> old_value,
   new_value |-> new_value, section |-> section]

\* dict iteration order: the insertion order of the builder
FieldOrder == <<"ArticleNumber", "Culture", "Name", "NewStockCount", "UseAdvancedStatus">>
Keys(d) == SelectSeq(FieldOrder, LAMBDA k : k \in DOMAIN d)

RECURSIVE DiffKeys(_, _, _, _, _)
DiffKeys(keys, current, desired, culture, section) ==
  IF keys = <<>> THEN <<>>
  ELSE LET key == Head(keys)
           current_value == DictGet(current, key)
           rest == DiffKeys(Tail(keys), current, desired, culture, section)
       IN IF ~PyEq(_normalize(current_value), _normalize(desired[key]))
            THEN <<DiffItem(key, current_value, desired[key], culture, section)>> \o rest
            ELSE rest

diff_product_data(current, desired, culture) ==
  DiffKeys(SelectSeq(Keys(desired), LAMBDA k : k \notin {"ProductInCategories", "StockData"}),
           current, desired, culture, "ProductData")

\* a category given as a record {"CategoryId": id}
CategoryRecord(id) == [t |-> "dict", s |-> "CategoryId", n |-> 1, l |-> <<id>>]

\* the items are Python values: item.get("CategoryId") of a record, else the
\* item; None is dropped and the rest becomes str(category_id)
_normalize_category_ids(categories) ==
  LET ids == [i \in DOMAIN categories |->
                IF categories[i].t = "dict"
                  THEN IF categories[i].s = "CategoryId" /\ categories[i].n = 1
                         THEN categories[i].l[1] ELSE None
                  ELSE categories[i]]
      kept == SelectSeq(ids, LAMBDA id : id # None)
  IN [i \in DOMAIN kept |-> PyStr(kept[i])]

Count(q, x) == Cardinality({i \in DOMAIN q : q[i] = x})
\* sorted(a) != sorted(b)
SortedDiffer(a, b) ==
  \E x \in {a[i] : i \in DOMAIN a} \cup {b[i] : i \in DOMAIN b} : Count(a, x) # Count(b, x)

diff_categories(current_categories, desired_categories, culture) ==
  LET current_ids == _normalize_category_ids(current_categories)
      desired_ids == _normalize_category_ids(desired_categories)
  IN IF SortedDiffer(current_ids, desired_ids)
       THEN <<DiffItem("ProductInCategories", List(current_ids), List(desired_ids),
                       culture, "Categories")>>
       ELSE <<>>

diff_stock(current_stock, desired_stock, culture) ==
  DiffKeys(Keys(desired_stock), current_stock, desired_stock, culture, "StockData")

DynamicKeyOrder == <<"atr_colour">>

RECURSIVE DiffDynamicCultures(_, _, _, _)
DiffDynamicCultures(key, cultures, current, desired) ==
  IF cultures = <<>> THEN <<>>
  ELSE LET culture == Head(cultures)
           current_value == DictGet(IF key \in DOMAIN current THEN current[key] ELSE EmptyDict,
                                    culture)
           rest == DiffDynamicCultures(key, Tail(cultures), current, desired)
       IN IF ~PyEq(_normalize(current_value), _normalize(desired[key][culture]))
            THEN <<DiffItem(key, current_value, desired[key][culture], culture,
                            "DynamicFields")>> \o rest
            ELSE rest

RECURSIVE DiffDynamicKeys(_, _, _)
DiffDynamicKeys(keys, current, desired) ==
  IF keys = <<>> THEN <<>>
  ELSE DiffDynamicCultures(Head(keys),
                           SelectSeq(Cultures, LAMBDA c : c \in DOMAIN desired[Head(keys)]),
                           current, desired)
       \o DiffDynamicKeys(Tail(keys), current, desired)

\* variant of diff_dynamic_fields: the keys and cultures of the current state
\* are compared too
DiffsOfCurrentToo(current, desired) ==
  DiffDynamicKeys(SelectSeq(DynamicKeyOrder, LAMBDA k : k \in DOMAIN desired), current, desired)
    \o [i \in 1..Cardinality(DOMAIN current \ DOMAIN desired) |->
          DiffItem("atr_colour", None, None, "sv-SE", "DynamicFields")]

diff_dynamic_fields(current, desired) ==
  DiffDynamicKeys(SelectSeq(DynamicKeyOrder, LAMBDA k : k \in DOMAIN desired), current, desired)

-----------------------------------------------------------------------------
(* jetshop_client.py: the destination as the engine sees it *)

ProductNos == {"P1", "P2"}
CultureSet == {Cultures[i] : i \in DOMAIN Cultures}

\* product_get: None (not found), or the dict of the product's fields with its
\* ProductInCategories and StockData
NotFound ==
  [found |-> FALSE, data |-> EmptyDict, ProductInCategories |-> <<>>, StockData |-> EmptyDict]

EmptyDestination ==
  [p \in ProductNos |->
     [prod |-> [c \in CultureSet |-> NotFound], dyn |-> EmptyDict, price |-> <<>>]]

\* product_get(culture, article_number) or {}: the fields come back as the text
\* of the response, the stock counts through _parse_int
product_get(d, culture, product_no) ==
  LET stored == d[product_no].prod[culture]
  IN [stored EXCEPT !.data = [k \in DOMAIN stored.data |-> Str(PyStr(stored.data[k]))]]

\* str(exc) of the exception _post_soap raises for an operation
ExcText(operation) == "SOAP Fault: " \o operation

\* One destination call as the run records it.
Call(op, product_no, culture, ok) ==
  [op |-> op, product_no |-> product_no, culture |-> culture, ok |-> ok]

WriteOps == {"product_add_update", "dyn_save", "price_list_update", "product_delete"}

\* What Product_AddUpdate answers: it raises, or one ProductResult per payload.
AddUpdateResponses(n) ==
  {[raise |-> TRUE, flags |-> [i \in 1..n |-> FALSE]]}
    \cup {[raise |-> FALSE, flags |-> f] : f \in [1..n -> BOOLEAN]}

MsgMissing == "No dynamic field, connected to product, found with key."
MsgNotConnected == "Dynamic field is not connected to product"
\* the message of one result: "ok" for a saved field, else the failure text
DynStatuses == {"ok", MsgMissing, MsgNotConnected, ""}

\* What dyn_save answers: it raises, or a list of DynamicFieldResult.
DynSaveResponses ==
  {[raise |-> TRUE, statuses |-> <<>>]}
    \cup {[raise |-> FALSE, statuses |-> q] :
            q \in UNION {[1..k -> DynStatuses] : k \in 0..MaxDynResults}}

DynamicFieldResult(key, success, message) ==
  [key |-> key, success |-> success, message |-> message]

\* the results of a dyn_save response, result i naming the key of input i
DynResults(inputs, statuses) ==
  [i \in 1..Len(statuses) |->
     DynamicFieldResult(IF i <= Len(inputs) THEN inputs[i].Key ELSE "other",
                        statuses[i] = "ok",
                        IF statuses[i] = "ok" THEN "" ELSE statuses[i])]

\* The destination after Product_AddUpdate: the payload of every culture that
\* reports success replaces the product's fields there.
StoreProduct(d, product_no, payloads, flags) ==
  [d EXCEPT ![product_no].prod =
     [c \in CultureSet |->
        LET i == CHOOSE j \in DOMAIN Cultures : Cultures[j] = c
            old == d[product_no].prod[c]
            new == payloads[i]
        IN IF ~flags[i] THEN old
           ELSE [found |-> TRUE,
                 data |-> [k \in DOMAIN old.data \cup DOMAIN new.data |->
                             IF k \in DOMAIN new.data THEN new.data[k] ELSE old.data[k]],
                 ProductInCategories |->
                   IF new.has_categories
                     THEN LET plain == SelectSeq(new.ProductInCategories,
                                                 LAMBDA e : e.ProductInCategoryState = "")
                          IN [j \in DOMAIN plain |-> plain[j].CategoryId]
                     ELSE old.ProductInCategories,
                 StockData |-> [k \in DOMAIN old.StockData \cup DOMAIN new.StockData |->
                                  IF k \in DOMAIN new.StockData THEN new.StockData[k]
                                  ELSE old.StockData[k]]]]]

\* The destination after dyn_save: an input is stored unless a failed result names its key.
StoreDynamic(d, product_no, inputs, dyn_results) ==
  LET failed == {dyn_results[i].key : i \in {j \in DOMAIN dyn_results : ~dyn_results[j].success}}
      saved == {i \in DOMAIN inputs : inputs[i].Key \notin failed}
      keys == {inputs[i].Key : i \in saved}
      old == d[product_no].dyn
  IN [d EXCEPT ![product_no].dyn =
        [k \in DOMAIN old \cup keys |->
           IF k \in keys
             THEN (LET i == CHOOSE j \in saved : inputs[j].Key = k IN inputs[i].ItemValues)
             ELSE old[k]]]

StorePriceLists(d, product_no, inputs) == [d EXCEPT ![product_no].price = inputs]

\* a variant of DeleteProduct that clears the whole shop
DeleteEveryProduct(d, product_no) == EmptyDestination

DeleteProduct(d, product_no) ==
  [d EXCEPT ![product_no] =
     [prod |-> [c \in CultureSet |-> NotFound], dyn |-> EmptyDict, price |-> <<>>]]

-----------------------------------------------------------------------------
(* sync_engine.py: the per-product handlers *)

ProductProcessResult(product_no, action, success, errors, changes, dynamic_changes) ==
  [product_no |-> product_no, action |-> action, success |-> success, errors |-> errors,
   changes |-> changes, dynamic_changes |-> dynamic_changes]

\* The locals of a handler that the properties read.
NoLocals ==
  [branch |-> "", builder_ran |-> FALSE, errors |-> <<>>, read_ok |-> FALSE,
   current_by_culture |-> [c \in CultureSet |-> NotFound],
   desired_by_culture |-> EmptyDict, categories |-> [none |-> TRUE, ids |-> <<>>],
   stock_data |-> EmptyDict, dynamic_fields |-> EmptyDict, price_lists |-> <<>>,
   diffs |-> <<>>, dynamic_diffs |-> <<>>, removed_categories |-> <<>>,
   payloads |-> <<>>, add_flags |-> <<>>, dyn_inputs |-> <<>>, dyn_results |-> <<>>,
   price_inputs |-> <<>>, calls |-> <<>>]

\* What a handler does: it raises, or returns a result; the calls it issued and
\* the destination it leaves.
Outcome(raised, result, d, locals) ==
  [raised |-> raised, result |-> result, dest |-> d, locals |-> locals]

NoResult == ProductProcessResult("", "", FALSE, <<>>, 0, 0)

_get_product_no(product) == product.identifier.productNo

\* `not value` for a productNo
Falsy(value) == value.t = "none" \/ (value.t = "str" /\ value.s = "")

_is_feed_deleted(product) ==
  LET top_level == product.deleted
      deleted == product.productHead.deleted
  IN IF top_level.t = "bool" THEN top_level.n = 1
     ELSE IF top_level.t = "str" THEN Lower(Strip(top_level.s)) = "true"
     ELSE IF deleted.t = "bool" THEN deleted.n = 1
     ELSE IF deleted.t = "str" THEN Lower(Strip(deleted.s)) = "true"
     ELSE FALSE

\* line 78: the product takes the delete branch
IsDelete(product) == product.action = "Delete" \/ _is_feed_deleted(product)

\* a variant of _handle_delete without the dry_run test of line 111
DeleteIgnoringDryRun(product_no, is_dry_run, d) ==
  {Outcome(FALSE, ProductProcessResult(product_no, "delete", TRUE, <<>>, 0, 0),
           [d EXCEPT ![product_no] =
              [prod |-> [c \in CultureSet |-> NotFound], dyn |-> EmptyDict, price |-> <<>>]],
           [NoLocals EXCEPT !.branch = "delete",
                            !.calls = <<Call("product_delete", product_no, "", TRUE)>>])}

_handle_delete(product_no, is_dry_run, d) ==
  IF is_dry_run
    THEN {Outcome(FALSE, ProductProcessResult(product_no, "delete", TRUE, <<>>, 0, 0), d,
                  [NoLocals EXCEPT !.branch = "delete"])}
    ELSE {Outcome(FALSE, ProductProcessResult(product_no, "delete", TRUE, <<>>, 0, 0),
                  DeleteProduct(d, product_no),
                  [NoLocals EXCEPT !.branch = "delete",
                                   !.calls = <<Call("product_delete", product_no, "", TRUE)>>]),
          Outcome(FALSE,
                  ProductProcessResult(product_no, "delete", FALSE,
                                       <<ExcText("Product_Delete")>>, 0, 0),
                  d,
                  [NoLocals EXCEPT !.branch = "delete",
                                   !.calls = <<Call("product_delete", product_no, "", FALSE)>>])}

\* a variant of _is_missing_dynamic_field that looks for "not connected to product"
IsNotConnectedMessage(message) == Contains(Lower(message), "not connected to product")

_is_missing_dynamic_field(message) ==
  IF message = "" THEN FALSE
  ELSE LET normalized == Lower(message)
       IN Contains(normalized, "no dynamic field") /\ Contains(normalized, "connected to product")

\* category ids in sorted order
CategoryOrder == <<"1", "2", "3">>
Sorted(ids) == SelectSeq(CategoryOrder, LAMBDA x : x \in ids)

\* variant: the removed ids are left out of the payload
PlainCategoryPayload(categories, removed_categories) ==
  [i \in 1..Len(categories) |->
     [CategoryId |-> categories[i], ProductInCategoryState |-> ""]]

_build_category_payload(categories, removed_categories) ==
  [i \in 1..Len(categories) |->
     [CategoryId |-> categories[i], ProductInCategoryState |-> ""]]
  \o [i \in 1..Len(removed_categories) |->
        [CategoryId |-> removed_categories[i], ProductInCategoryState |-> "DeleteConnection"]]

_build_dynamic_inputs(product_no, dynamic_fields, dynamic_diffs) ==
  LET changed_keys == {dynamic_diffs[i].target_field : i \in DOMAIN dynamic_diffs}
      keys == SelectSeq(DynamicKeyOrder,
                        LAMBDA k : k \in DOMAIN dynamic_fields /\ k \in changed_keys)
  IN [i \in 1..Len(keys) |->
        [ArticleNumber |-> product_no, Key |-> keys[i], ItemValues |-> dynamic_fields[keys[i]]]]

\* ", ".join(parts)
RECURSIVE Join(_)
Join(parts) ==
  IF parts = <<>> THEN ""
  ELSE IF Len(parts) = 1 THEN parts[1]
  ELSE parts[1] \o ", " \o Join(Tail(parts))

\* lines 157-164: the product, category and stock diffs of every culture
RECURSIVE CultureDiffs(_, _, _)
CultureDiffs(cultures, current_by_culture, b) ==
  IF cultures = <<>> THEN <<>>
  ELSE LET culture == Head(cultures)
           current == current_by_culture[culture]
           desired == b.desired_by_culture[culture]
       IN diff_product_data(current.data, desired, culture)
          \o (IF ~b.categories.none
                THEN diff_categories(
                       [i \in DOMAIN current.ProductInCategories |->
                          Str(current.ProductInCategories[i])],
                       [i \in DOMAIN b.categories.ids |-> Str(b.categories.ids[i])],
                       culture)
                ELSE <<>>)
          \o diff_stock(current.StockData, b.stock_data, culture)
          \o CultureDiffs(Tail(cultures), current_by_culture, b)

\* a variant of NoChange that leaves the price lists out
NoChangeWithoutPrices(diffs, dynamic_diffs, price_lists) ==
  diffs = <<>> /\ dynamic_diffs = <<>>

\* line 217: nothing to write
NoChange(diffs, dynamic_diffs, price_lists) ==
  diffs = <<>> /\ dynamic_diffs = <<>> /\ price_lists = <<>>

\* lines 236-243: the stock payload with the carry-over of UseAdvancedStatus
StockPayload(stock_data, current_stock) ==
  IF stock_data = EmptyDict THEN stock_data
  ELSE IF "UseAdvancedStatus" \notin DOMAIN stock_data
          /\ DictGet(current_stock, "UseAdvancedStatus") # None
    THEN DictSet(stock_data, "UseAdvancedStatus", current_stock["UseAdvancedStatus"])
  ELSE stock_data

\* variant of PriceStage: a failure of price_list_update is not reported
PriceFailureSwallowed(x, issued, d) ==
  LET ok == ProductProcessResult(x.product_no, "update", TRUE, <<>>, Len(x.locals.diffs),
                                 Len(x.locals.dynamic_diffs))
  IN IF x.locals.price_lists = <<>>
       THEN {Outcome(FALSE, ok, d, [x.locals EXCEPT !.calls = issued])}
       ELSE {Outcome(FALSE, ok, StorePriceLists(d, x.product_no, x.locals.price_lists),
                     [x.locals EXCEPT
                        !.price_inputs = x.locals.price_lists,
                        !.calls = Append(issued, Call("price_list_update", x.product_no, "", TRUE))]),
             Outcome(FALSE, ok, d,
                     [x.locals EXCEPT
                        !.price_inputs = x.locals.price_lists,
                        !.calls = Append(issued, Call("price_list_update", x.product_no, "", FALSE))])}

\* lines 292-295: the price lists are written last; whatever price_list_update
\* raises is caught at line 296
PriceStage(x, issued, d) ==
  LET ok == ProductProcessResult(x.product_no, "update", TRUE, <<>>, Len(x.locals.diffs),
                                 Len(x.locals.dynamic_diffs))
      failed == ProductProcessResult(x.product_no, "update", FALSE,
                                     <<ExcText("PriceList_UpdateArticleIncVAT")>>,
                                     Len(x.locals.diffs), Len(x.locals.dynamic_diffs))
  IN IF x.locals.price_lists = <<>>
       THEN {Outcome(FALSE, ok, d, [x.locals EXCEPT !.calls = issued])}
       ELSE {Outcome(FALSE, ok, StorePriceLists(d, x.product_no, x.locals.price_lists),
                     [x.locals EXCEPT
                        !.price_inputs = x.locals.price_lists,
                        !.calls = Append(issued, Call("price_list_update", x.product_no, "", TRUE))]),
             Outcome(FALSE, failed, d,
                     [x.locals EXCEPT
                        !.price_inputs = x.locals.price_lists,
                        !.calls = Append(issued, Call("price_list_update", x.product_no, "", FALSE))])}

\* lines 272-290: the dynamic fields
DynStage(x, issued, d) ==
  IF x.locals.dynamic_diffs = <<>> THEN PriceStage(x, issued, d)
  ELSE LET inputs == _build_dynamic_inputs(x.product_no, x.locals.dynamic_fields,
                                           x.locals.dynamic_diffs)
           Failed(text, ok, dyn_results) ==
             Outcome(FALSE,
                     ProductProcessResult(x.product_no, "update", FALSE, <<text>>,
                                          Len(x.locals.diffs), Len(x.locals.dynamic_diffs)),
                     IF ok THEN StoreDynamic(d, x.product_no, inputs, dyn_results) ELSE d,
                     [x.locals EXCEPT
                        !.dyn_inputs = inputs, !.dyn_results = dyn_results,
                        !.calls = Append(issued, Call("dyn_save", x.product_no, "", ok))])
           After(response) ==
             LET dyn_results == DynResults(inputs, response.statuses)
                 dyn_failures == SelectSeq(dyn_results, LAMBDA res : ~res.success)
                 other_failures ==
                   SelectSeq(dyn_failures, LAMBDA res : ~_is_missing_dynamic_field(res.message))
             IN IF response.raise
                  THEN {Failed(ExcText("ProductDynamicField_SaveProductDynamicFieldData"),
                               FALSE, <<>>)}
                ELSE IF other_failures # <<>>
                  THEN {Failed("Dynamic field save failed: "
                                 \o Join([i \in 1..Len(other_failures) |->
                                            other_failures[i].key \o ":"
                                              \o other_failures[i].message]),
                               TRUE, dyn_results)}
                ELSE PriceStage([x EXCEPT !.locals.dyn_inputs = inputs,
                                          !.locals.dyn_results = dyn_results],
                                Append(issued, Call("dyn_save", x.product_no, "", TRUE)),
                                StoreDynamic(d, x.product_no, inputs, dyn_results))
       IN UNION {After(response) : response \in DynSaveResponses}

\* variant of AddUpdateStage: the flags of the answer are not looked at
AddUpdateIgnoresFailures(x, d) ==
  IF x.locals.diffs = <<>> THEN DynStage(x, x.locals.calls, d)
  ELSE UNION {DynStage([x EXCEPT !.locals.add_flags = response.flags],
                       Append(x.locals.calls,
                              Call("product_add_update", x.product_no, "", ~response.raise)),
                       d) :
                response \in AddUpdateResponses(Len(x.mapping.cultures))}

\* lines 235-270: the combined per-culture update
AddUpdateStage(x, d) ==
  IF x.locals.diffs = <<>> THEN DynStage(x, x.locals.calls, d)
  ELSE LET m == x.mapping
           current_stock == x.locals.current_by_culture[m.cultures[1]].StockData
           stock_payload == StockPayload(x.locals.stock_data, current_stock)
           payloads ==
             [i \in 1..Len(m.cultures) |->
                [data |-> x.locals.desired_by_culture[m.cultures[i]],
                 has_categories |-> ~x.locals.categories.none,
                 ProductInCategories |->
                   IF x.locals.categories.none THEN <<>>
                   ELSE _build_category_payload(x.locals.categories.ids,
                                                x.locals.removed_categories),
                 StockData |-> stock_payload]]
           Failed(text, returned, flags) ==
             Outcome(FALSE,
                     ProductProcessResult(x.product_no, "update", FALSE, <<text>>,
                                          Len(x.locals.diffs), Len(x.locals.dynamic_diffs)),
                     StoreProduct(d, x.product_no, payloads, flags),
                     [x.locals EXCEPT
                        !.payloads = payloads, !.add_flags = flags,
                        !.calls = Append(x.locals.calls,
                                         Call("product_add_update", x.product_no, "",
                                              returned))])
           After(response) ==
             LET failures == SelectSeq(m.cultures,
                                       LAMBDA c : \E i \in DOMAIN m.cultures :
                                                    m.cultures[i] = c /\ ~response.flags[i])
             IN IF response.raise
                  THEN {Failed(ExcText("Product_AddUpdate"), FALSE, response.flags)}
                ELSE IF failures # <<>>
                  THEN {Failed("Product_AddUpdate failed: "
                                 \o Join([i \in 1..Len(failures) |-> failures[i] \o ":Failed"]),
                               TRUE, response.flags)}
                ELSE DynStage([x EXCEPT !.locals.payloads = payloads,
                                        !.locals.add_flags = response.flags],
                              Append(x.locals.calls,
                                     Call("product_add_update", x.product_no, "", TRUE)),
                              StoreProduct(d, x.product_no, payloads, response.flags))
       IN UNION {After(response) : response \in AddUpdateResponses(Len(m.cultures))}

\* variant of ReadCalls: only the first culture is read
ReadsFirstCulture(m, product_no, fail_at) ==
  <<Call("product_get", product_no, m.cultures[1], fail_at # 1)>>

\* lines 144-153: product_get for the cultures in order; fail_at = 0: every read
\* returns, fail_at = k: the read of culture k raises
ReadCalls(m, product_no, fail_at) ==
  [i \in 1..(IF fail_at = 0 THEN Len(m.cultures) ELSE fail_at) |->
     Call("product_get", product_no, m.cultures[i], i # fail_at)]

\* lines 155-232, after the reads: diff, then no_change, dry_run or the writes
AfterRead(m, product_no, is_dry_run, d, b) ==
  LET current_by_culture == [c \in CultureSet |-> product_get(d, c, product_no)]
      \* current_dynamic stays the empty dict of line 155
      current_dynamic == EmptyDict
      diffs == CultureDiffs(m.cultures, current_by_culture, b)
      current_set == UNION {{current_by_culture[c].ProductInCategories[i] :
                               i \in DOMAIN current_by_culture[c].ProductInCategories} :
                            c \in CultureSet}
      desired_set == {b.categories.ids[i] : i \in DOMAIN b.categories.ids}
      removed_categories == IF b.categories.none THEN <<>>
                            ELSE Sorted(current_set \ desired_set)
      dynamic_diffs == diff_dynamic_fields(current_dynamic, b.dynamic_fields)
      locals == [NoLocals EXCEPT
                   !.branch = "update", !.builder_ran = TRUE, !.read_ok = TRUE,
                   !.current_by_culture = current_by_culture,
                   !.desired_by_culture = b.desired_by_culture,
                   !.categories = b.categories, !.stock_data = b.stock_data,
                   !.dynamic_fields = b.dynamic_fields, !.price_lists = b.price_lists,
                   !.diffs = diffs, !.dynamic_diffs = dynamic_diffs,
                   !.removed_categories = removed_categories,
                   !.calls = ReadCalls(m, product_no, 0)]
  IN IF NoChange(diffs, dynamic_diffs, b.price_lists)
       THEN {Outcome(FALSE, ProductProcessResult(product_no, "no_change", TRUE, <<>>, 0, 0),
                     d, locals)}
     ELSE IF is_dry_run
       THEN {Outcome(FALSE,
                     ProductProcessResult(product_no, "dry_run", TRUE, <<>>, Len(diffs),
                                          Len(dynamic_diffs)),
                     d, locals)}
     ELSE AddUpdateStage([mapping |-> m, product_no |-> product_no, locals |-> locals], d)

\* a variant of HasErrors that lets every product through
ErrorsIgnored(errors) == FALSE

\* line 137: `if errors:`
HasErrors(errors) == errors # <<>>

_handle_update(m, product, product_no, is_dry_run, d) ==
  LET b == _build_desired(m, product, product_no)
      built == [NoLocals EXCEPT !.branch = "update", !.builder_ran = TRUE,
                                !.errors = b.errors]
  IN IF b.raised THEN {Outcome(TRUE, NoResult, d, built)}
     ELSE IF HasErrors(b.errors)
       THEN {Outcome(FALSE, ProductProcessResult(product_no, "skip", FALSE, b.errors, 0, 0),
                     d, built)}
     ELSE {Outcome(FALSE,
                   ProductProcessResult(product_no, "read_failed", FALSE,
                                        <<ExcText("Product_Get")>>, 0, 0),
                   d, [built EXCEPT !.calls = ReadCalls(m, product_no, k),
                                    !.price_lists = b.price_lists,
                                    !.dynamic_fields = b.dynamic_fields]) :
             k \in 1..Len(m.cultures)}
          \cup AfterRead(m, product_no, is_dry_run, d, b)

-----------------------------------------------------------------------------
(* The feed: product documents *)

\* a product document of the export: identifier.productNo, action, the two
\* deletion markers and the attributes by import code
Product(no, action, top_level, nested, attributes) ==
  [identifier |-> [productNo |-> no], action |-> action, deleted |-> top_level,
   productHead |-> [deleted |-> nested], attributes |-> attributes]

Attr(code, value) == code :> AttrDict(code, TRUE, value)
\* an attribute the feed lists without a value
Removed(code) == code :> AttrDict(code, FALSE, None)

NameA == Attr("name", Str("A"))

FullAttributes ==
  Attr("name", Str("B")) @@ Attr("atr_colour", Str("x")) @@ Attr("price", IntV(10))
    @@ Attr("cat", List(<<Str("1")>>)) @@ Attr("stock", IntV(5))

\* The documents of the batch-level specification.
BatchDocs ==
  {Product(Str("P1"), "Update", None, None, NameA),
   Product(Str("P2"), "Update", None, None, FullAttributes),
   Product(Str("P1"), "Delete", None, None, NameA),
   Product(None, "Update", None, None, NameA),
   Product(Str("P1"), "Update", None, None, EmptyDict),
   Product(Str("P2"), "Update", None, None, NameA @@ Attr("price", List(<<IntV(10)>>)))}

\* the encodings a deletion marker takes in the feed
Markers == {None, Bool(TRUE), Bool(FALSE), Str("true"), Str(" TRUE "), Str("false")}

\* The documents of the product-level specification, one slice per section of
\* the mapping and one for the deletion markers.
DetailDocs ==
  {Product(Str("P1"), "Update", None, None, a) :
     a \in {EmptyDict, Attr("price", List(<<IntV(10)>>)), Removed("name"), Attr("name", Str("")), Attr("name", IntV(7)),
            NameA @@ Removed("atr_colour"), NameA @@ Attr("atr_colour", Str("x")),
            NameA @@ Attr("price", IntV(10)), NameA @@ Attr("price", Str("10")),
            NameA @@ Attr("price", Str("abc")), NameA @@ Attr("price", List(<<IntV(10)>>)),
            NameA @@ Attr("cat", List(<<Str("1"), Str("2")>>)),
            NameA @@ Attr("stock", IntV(5)), NameA @@ Attr("stock", Str("5")),
            FullAttributes}}
    \cup {Product(Str("P1"), "Update", top_level, nested, NameA) :
            top_level \in Markers, nested \in Markers}
    \cup {Product(Str("P1"), "Delete", None, None, NameA),
          Product(None, "Update", None, None, NameA),
          Product(Str(""), "Update", None, None, NameA)}

\* the batches of at most n documents
Batches(docs, n) == UNION {[1..k -> docs] : k \in 0..n}

-----------------------------------------------------------------------------
(* state_store.py *)

\* read_last_run: None (0) when no state file exists
read_last_run(stored) == stored

\* a variant of write_now that writes the time before the current one
WriteEarlierTime(now) == now - 1

\* write_now: the state file holds the current time
write_now(now) == now

-----------------------------------------------------------------------------
(* main.py and SyncEngine.sync *)

ZeroCounts ==
  [processed |-> 0, updated |-> 0, deleted |-> 0, skipped |-> 0, failed |-> 0, no_change |-> 0]

\* lines 66-94: the body of the loop for one product
LoopBody(m, product, is_dry_run, d) ==
  LET product_no_value == _get_product_no(product)
  IN IF Falsy(product_no_value)
       THEN {Outcome(FALSE,
                     ProductProcessResult("", "skip", FALSE, <<"Missing productNo">>, 0, 0),
                     d, [NoLocals EXCEPT !.branch = "missing"])}
     ELSE IF IsDelete(product)
       THEN _handle_delete(product_no_value.s, is_dry_run, d)
     ELSE _handle_update(m, product, product_no_value.s, is_dry_run, d)

\* a variant of Counted that counts every handled update as updated
CountedAsUpdated(c, branch, result) ==
  LET processed == [c EXCEPT !.processed = @ + 1]
  IN IF branch = "missing" THEN [processed EXCEPT !.failed = @ + 1]
     ELSE IF branch = "delete"
       THEN IF result.success THEN [processed EXCEPT !.deleted = @ + 1]
            ELSE [processed EXCEPT !.failed = @ + 1]
     ELSE [processed EXCEPT !.updated = @ + 1]

\* a variant of Counted that counts a skip under skipped
CountedWithSkipped(c, branch, result) ==
  LET processed == [c EXCEPT !.processed = @ + 1]
  IN IF branch = "missing" \/ result.action = "skip"
       THEN [processed EXCEPT !.skipped = @ + 1]
     ELSE IF branch = "delete"
       THEN IF result.success THEN [processed EXCEPT !.deleted = @ + 1]
            ELSE [processed EXCEPT !.failed = @ + 1]
     ELSE IF ~result.success THEN [processed EXCEPT !.failed = @ + 1]
     ELSE IF result.action = "no_change" THEN [processed EXCEPT !.no_change = @ + 1]
     ELSE [processed EXCEPT !.updated = @ + 1]

\* lines 67-94: the counters after one product
Counted(c, branch, result) ==
  LET processed == [c EXCEPT !.processed = @ + 1]
  IN IF branch = "missing" THEN [processed EXCEPT !.failed = @ + 1]
     ELSE IF branch = "delete"
       THEN IF result.success THEN [processed EXCEPT !.deleted = @ + 1]
            ELSE [processed EXCEPT !.failed = @ + 1]
     ELSE IF ~result.success THEN [processed EXCEPT !.failed = @ + 1]
     ELSE IF result.action = "no_change" THEN [processed EXCEPT !.no_change = @ + 1]
     ELSE [processed EXCEPT !.updated = @ + 1]

\* a variant of CheckpointGate that always writes
GateAlwaysOpen(c) == TRUE

\* a variant of CheckpointGate that needs a processed product
GateNeedsProducts(c) == c.failed = 0 /\ c.processed > 0

\* line 105: the checkpoint is written
CheckpointGate(c) == c.failed = 0

\* main.py line 59: export_from = args.since or state_store.read_last_run();
\* 0 stands for an absent argument and for None
ExportFrom(since, stored) == IF since # 0 THEN since ELSE read_last_run(stored)

Stopped == {"idle", "done", "raised", "fetch_failed", "exit"}

\* no mapping document: the process holds its MappingConfig already
NoFile == [kind |-> "none"]

\* no function is called on its own
NoCall == [fn |-> "", args |-> <<>>, ret |-> <<>>]

InitWith(feeds, mappings) ==
  /\ mapping \in mappings
  /\ catalog \in feeds
  /\ feed_changed = {}
  /\ dest = EmptyDestination
  /\ checkpoint = 0
  /\ clock = 2
  /\ runs = 0
  /\ pc = "idle"
  /\ export_from = 0
  /\ dry_run = FALSE
  /\ started_at = 0
  /\ products = <<>>
  /\ idx = 0
  /\ results = <<>>
  /\ counts = ZeroCounts
  /\ calls = <<>>
  /\ last = NoLocals
  /\ report = <<>>
  /\ mapping_file = NoFile
  /\ call = NoCall

Init == InitWith(Batches(BatchDocs, MaxProducts), {BaseMapping})

InitDetail == InitWith(Batches(DetailDocs, MaxDetailProducts), Mappings)

\* main.py lines 59-62: neither --since nor a stored checkpoint
MissingSince ==
  /\ pc \in Stopped
  /\ runs < MaxRuns
  /\ ExportFrom(0, checkpoint) = 0
  /\ pc' = "exit"
  /\ runs' = runs + 1
  /\ UNCHANGED <<mapping, catalog, feed_changed, dest, checkpoint, clock, export_from, dry_run,
                 started_at, products, idx, results, counts, calls, last, report,
                 mapping_file, call>>

\* main.py lines 59-81 and sync lines 59-63: a run starts and fetches its batch
SyncStart ==
  /\ pc \in Stopped
  /\ runs < MaxRuns
  /\ \E since \in {0, 1}, is_dry_run \in BOOLEAN :
       /\ ExportFrom(since, checkpoint) # 0
       /\ export_from' = ExportFrom(since, checkpoint)
       /\ dry_run' = is_dry_run
  /\ started_at' = clock
  /\ clock' = clock + 1
  /\ products' = catalog
  /\ idx' = 0
  /\ results' = <<>>
  /\ counts' = ZeroCounts
  /\ calls' = <<>>
  /\ last' = NoLocals
  /\ report' = <<>>
  /\ pc' = "loop"
  /\ runs' = runs + 1
  /\ UNCHANGED <<mapping, catalog, feed_changed, dest, checkpoint, mapping_file, call>>

\* sync line 60: fetch_products raises; the exception leaves sync and main
FetchFails ==
  /\ pc \in Stopped
  /\ runs < MaxRuns
  /\ \E since \in {0, 1}, is_dry_run \in BOOLEAN :
       /\ ExportFrom(since, checkpoint) # 0
       /\ export_from' = ExportFrom(since, checkpoint)
       /\ dry_run' = is_dry_run
  /\ started_at' = clock
  /\ clock' = clock + 1
  /\ products' = <<>>
  /\ idx' = 0
  /\ results' = <<>>
  /\ counts' = ZeroCounts
  /\ calls' = <<>>
  /\ last' = NoLocals
  /\ report' = <<>>
  /\ pc' = "fetch_failed"
  /\ runs' = runs + 1
  /\ UNCHANGED <<mapping, catalog, feed_changed, dest, checkpoint, mapping_file, call>>

\* sync lines 65-94: one iteration of the loop; an exception that leaves the
\* handler leaves sync and main
ProcessProduct ==
  /\ pc = "loop"
  /\ idx < Len(products)
  /\ \E o \in LoopBody(mapping, products[idx + 1], dry_run, dest) :
       /\ dest' = o.dest
       /\ last' = o.locals
       /\ calls' = calls \o o.locals.calls
       /\ IF o.raised
            THEN /\ pc' = "raised"
                 /\ counts' = [counts EXCEPT !.processed = @ + 1]
                 /\ UNCHANGED <<idx, results>>
            ELSE /\ pc' = "loop"
                 /\ idx' = idx + 1
                 /\ results' = Append(results, o.result)
                 /\ counts' = Counted(counts, o.locals.branch, o.result)
  /\ UNCHANGED <<mapping, catalog, feed_changed, checkpoint, clock, runs, export_from, dry_run,
                 started_at, products, report, mapping_file, call>>

\* sync lines 96-108: the report, and the checkpoint when no product failed
Finish ==
  /\ pc = "loop"
  /\ idx = Len(products)
  /\ report' = <<[startedAt |-> started_at, finishedAt |-> clock, exportFrom |-> export_from,
                  dryRun |-> dry_run, counts |-> counts, products |-> results]>>
  /\ checkpoint' = IF CheckpointGate(counts) THEN write_now(clock) ELSE checkpoint
  /\ clock' = clock + 1
  /\ pc' = "done"
  /\ UNCHANGED <<mapping, catalog, feed_changed, dest, runs, export_from, dry_run, started_at, products,
                 idx, results, counts, calls, last, mapping_file, call>>

Next == MissingSince \/ SyncStart \/ FetchFails \/ ProcessProduct \/ Finish

Spec == Init /\ [][Next]_vars

SpecDetail == InitDetail /\ [][Next]_vars

-----------------------------------------------------------------------------
(* Properties *)

\* the loop has handled at least one product of the running or finished run;
\* last holds the locals of the handler for products[idx]
Handled == pc \in {"loop", "done"} /\ idx > 0
HandledProduct == products[idx]
HandledResult == results[idx]

\* the results of the run that report a failure
Failures == {i \in DOMAIN results : ~results[i].success}

\* the calls of one handler to the operations ops
CallsOf(l, ops) == SelectSeq(l.calls, LAMBDA c : c.op \in ops)
\* a call of one handler to op raised
Raised(l, op) == \E i \in DOMAIN l.calls : l.calls[i].op = op /\ ~l.calls[i].ok
\* a call of one handler to op returned
Returned(l, op) == \E i \in DOMAIN l.calls : l.calls[i].op = op /\ l.calls[i].ok

\* the failed results of the dyn_save response
DynFailures(l) == SelectSeq(l.dyn_results, LAMBDA r : ~r.success)

\* a failure text that names a dynamic field missing on the product
MissingText(message) ==
  Contains(Lower(message), "no dynamic field") /\ Contains(Lower(message), "connected to product")

\* C1: the checkpoint is written only when a run ends with the whole batch
\* handled and no failed product, and then holds the time of the end of the run;
\* every failed product is counted; a run that stops early or has a failed
\* product leaves the checkpoint as it was, and a run started without --since
\* reads its lower bound from the checkpoint.
C1_CheckpointOnlyAfterCleanRun ==
  /\ [](pc \in {"loop", "done"} =>
          /\ counts.failed = Cardinality(Failures)
          /\ Len(results) = idx)
  /\ [][/\ checkpoint' # checkpoint =>
             /\ pc = "loop" /\ pc' = "done"
             /\ idx = Len(products) /\ Len(results) = Len(products)
             /\ Failures = {}
             /\ checkpoint' = clock
        /\ (pc' \in {"raised", "fetch_failed", "exit"} \/ (pc' = "done" /\ Failures # {})) =>
             checkpoint' = checkpoint
        /\ (pc \in Stopped /\ pc' \in {"loop", "fetch_failed"}) =>
             export_from' \in {1, checkpoint}]_vars

\* C1, its case: the second run started from the checkpoint of the first, a
\* product failed in it, and the checkpoint is still that of the first run
C1_FailedRunKeepsCheckpoint ==
  /\ pc = "done" /\ runs = 2
  /\ Failures # {}
  /\ checkpoint # 0 /\ checkpoint < started_at
  /\ export_from = checkpoint

\* C2: a failed destination call never stops the loop (the run stops early only
\* when no call was made for the product), every finished run has a result for
\* every product, and the calls for one product name that product only and
\* leave what the destination holds for every other product as it was.
C2_FailureIsolation ==
  /\ [](/\ pc = "done" => Len(results) = Len(products)
        /\ pc = "raised" => last.calls = <<>>)
  /\ [][idx' = idx + 1 =>
          LET no == _get_product_no(products[idx'])
          IN /\ pc' = "loop"
             /\ calls' = calls \o last'.calls
             /\ \A i \in DOMAIN last'.calls : last'.calls[i].product_no = no.s
             /\ \A p \in ProductNos : p # no.s => dest'[p] = dest[p]]_vars

\* C2, its case: the price-list update of the first product failed after its
\* product write, the second product was updated, and the first product's
\* write is still in the destination
C2_SecondProductAfterFailure ==
  /\ pc = "done" /\ Len(results) = 2
  /\ results[1].action = "update" /\ ~results[1].success
  /\ \E i \in DOMAIN calls : calls[i].op = "price_list_update" /\ ~calls[i].ok
  /\ results[2].action = "update" /\ results[2].success
  /\ results[1].product_no # results[2].product_no
  /\ dest[results[1].product_no].prod["sv-SE"].found
  /\ dest[results[2].product_no].prod["sv-SE"].found

\* C3: every run that fetched its batch ends with a report holding one result
\* for every product; no run stops while handling a product.
C3_RunAlwaysReports ==
  /\ pc # "raised"
  /\ pc = "done" => Len(report) = 1 /\ Len(report[1].products) = Len(products)

\* C4: in a dry run no write call is issued and the destination keeps its
\* state; a product with changes ends at dry_run and a deleted product at
\* delete, both with success.
C4_DryRunWritesNothing ==
  /\ []((dry_run /\ pc \in {"loop", "done", "raised"}) =>
          /\ \A i \in DOMAIN calls : calls[i].op \notin WriteOps
          /\ \A i \in DOMAIN results :
               results[i].action \in {"dry_run", "delete"} =>
                 results[i].success /\ results[i].errors = <<>>
          /\ (Handled /\ last.branch = "delete") => HandledResult.action = "delete"
          /\ (Handled /\ last.read_ok /\ (last.diffs # <<>> \/ last.dynamic_diffs # <<>>)) =>
               HandledResult.action = "dry_run")
  /\ [][(dry_run /\ pc = "loop") => dest' = dest]_vars

\* C4, its case: a dry run that handled a changed product and a deleted one
C4_DryRunOfChangeAndDelete ==
  /\ dry_run /\ pc = "done" /\ Len(results) = 2
  /\ results[1].action = "dry_run" /\ results[1].changes > 0
  /\ results[2].action = "delete"
  /\ calls # <<>>

C6_ReadFailure ==
  /\ []((Handled /\ Raised(last, "product_get")) =>
          /\ HandledResult =
               ProductProcessResult(_get_product_no(HandledProduct).s, "read_failed", FALSE,
                                    <<"SOAP Fault: Product_Get">>, 0, 0)
          /\ CallsOf(last, WriteOps) = <<>>
          /\ ~last.calls[Len(last.calls)].ok
          /\ counts.failed = Cardinality(Failures))
  /\ [][(idx' = idx + 1 /\ Raised(last', "product_get")) =>
          /\ dest' = dest
          /\ pc' = "loop"
          /\ results' = Append(results, results'[idx'])
          /\ counts' = [counts EXCEPT !.processed = @ + 1, !.failed = @ + 1]]_vars

\* C6, its case: the read of the first product failed and the second product
\* was updated
C6_ReadFailedThenUpdate ==
  /\ pc = "done" /\ Len(results) = 2
  /\ results[1].action = "read_failed"
  /\ results[2].action = "update" /\ results[2].success
  /\ counts.failed = 1 /\ counts.updated = 1

\* the value is one of the encodings of true the claim names
MarkedTrue(value) == value = Bool(TRUE) \/ value = Str("true")

\* C7: a product with a product number whose top-level or nested deletion
\* marker is true takes the delete branch: the builder is not run, and the only
\* call is one product_delete (none in a dry run).
C7_MarkedProductIsDeleted ==
  (/\ Handled
   /\ ~Falsy(_get_product_no(HandledProduct))
   /\ \/ MarkedTrue(HandledProduct.deleted)
      \/ MarkedTrue(HandledProduct.productHead.deleted)) =>
    /\ last.branch = "delete"
    /\ ~last.builder_ran
    /\ HandledResult.action = "delete"
    /\ IF dry_run THEN last.calls = <<>>
       ELSE Len(last.calls) = 1 /\ last.calls[1].op = "product_delete"

\* the destination holds what the builder derives from the product: no product,
\* category or stock diff, and the dynamic fields and price lists as desired
HoldsDesired(d, m, product) ==
  LET no == _get_product_no(product)
      b == _build_desired(m, product, no.s)
  IN /\ ~Falsy(no)
     /\ ~IsDelete(product)
     /\ ~b.raised
     /\ b.errors = <<>>
     /\ \A c \in CultureSet : d[no.s].prod[c].found
     /\ CultureDiffs(m.cultures, [c \in CultureSet |-> product_get(d, c, no.s)], b) = <<>>
     /\ d[no.s].dyn = b.dynamic_fields
     /\ d[no.s].price = b.price_lists

\* C8: a live run that handles a product whose desired values the destination
\* already holds, and reads it, ends the product at no_change and issues no
\* write.  Stated for the products without price-list entries: the entries of
\* the others are written on every run.
C8_RerunIsNoChange ==
  [][(/\ pc = "loop" /\ idx' = idx + 1
      /\ ~dry_run
      /\ HoldsDesired(dest, mapping, products[idx'])
      /\ last'.read_ok
      /\ last'.price_lists = <<>>) =>
       /\ results'[idx'].action = "no_change"
       /\ CallsOf(last', WriteOps) = <<>>]_vars

\* C9, as stated: when dyn_save returns failed results, the product is failed
\* if and only if some failed result's message lacks "not connected to
\* product"; otherwise it ends at update with success and is not counted failed.
C9_NotConnectedIsTolerated ==
  (Handled /\ Returned(last, "dyn_save") /\ DynFailures(last) # <<>>) =>
    LET other == \E i \in DOMAIN DynFailures(last) :
                   ~Contains(Lower(DynFailures(last)[i].message), "not connected to product")
    IN /\ ~HandledResult.success <=> other
       /\ ~other => HandledResult.action = "update" /\ idx \notin Failures

\* C9: when dyn_save returns failed results, the dynamic-field step fails the
\* product if and only if some failed result's message is empty or lacks "no
\* dynamic field" or "connected to product" (case-insensitive); then no price
\* list is written and the one error names the failures.  Otherwise the product
\* ends at update, with success unless the price-list update raises, and a
\* successful product is counted as updated and not as failed.
C9_MissingFieldIsTolerated ==
  /\ []((Handled /\ Returned(last, "dyn_save") /\ DynFailures(last) # <<>>) =>
          LET other == \E i \in DOMAIN DynFailures(last) :
                         ~MissingText(DynFailures(last)[i].message)
          IN /\ HandledResult.action = "update"
             /\ ~HandledResult.success <=> (other \/ Raised(last, "price_list_update"))
             /\ other => /\ CallsOf(last, {"price_list_update"}) = <<>>
                         /\ Len(HandledResult.errors) = 1
             /\ HandledResult.success => HandledResult.errors = <<>>)
  /\ [][(/\ idx' = idx + 1
         /\ Returned(last', "dyn_save") /\ DynFailures(last') # <<>>
         /\ results'[idx'].success) =>
          counts' = [counts EXCEPT !.processed = @ + 1, !.updated = @ + 1]]_vars

\* C9, its case: both results of dyn_save failed with the missing-field message
\* and the product is updated
C9_TwoMissingFields ==
  /\ pc = "done" /\ idx = 1
  /\ Len(DynFailures(last)) = 2
  /\ \A i \in 1..2 : DynFailures(last)[i].message = MsgMissing
  /\ results[1].action = "update" /\ results[1].success
  /\ counts.failed = 0 /\ counts.updated = 1

\* the product of a live run went through mapping and reads and has price-list entries
PriceListsDue ==
  /\ Handled /\ ~dry_run
  /\ last.branch = "update" /\ last.errors = <<>> /\ last.read_ok
  /\ last.price_lists # <<>>

\* C10, as stated: such a product has exactly one price_list_update call with
\* all its entries, whatever the diffs and the outcome of the other writes.
C10_PriceListsAlwaysWritten ==
  PriceListsDue =>
    /\ Len(CallsOf(last, {"price_list_update"})) = 1
    /\ last.price_inputs = last.price_lists

\* C10: such a product has one price_list_update call with all its entries, as
\* its last call, whatever the diffs, unless the product write or the
\* dynamic-field write of that product failed; then it has none.
C10_PriceListsWrittenUnlessAborted ==
  PriceListsDue =>
    LET add_failed == \/ Raised(last, "product_add_update")
                      \/ \E i \in DOMAIN last.add_flags : ~last.add_flags[i]
        dyn_failed == \/ Raised(last, "dyn_save")
                      \/ \E i \in DOMAIN DynFailures(last) :
                           ~MissingText(DynFailures(last)[i].message)
        price_calls == CallsOf(last, {"price_list_update"})
    IN /\ HandledResult.action = "update"
       /\ IF add_failed \/ dyn_failed
            THEN price_calls = <<>> /\ ~HandledResult.success
            ELSE /\ Len(price_calls) = 1
                 /\ last.calls[Len(last.calls)].op = "price_list_update"
                 /\ last.price_inputs = last.price_lists
                 /\ HandledResult.success <=> price_calls[1].ok

\* C10, its case: the second run found no diff at all and wrote the price list
C10_PriceListWithoutDiffs ==
  /\ PriceListsDue /\ pc = "done" /\ runs = 2
  /\ last.diffs = <<>> /\ last.dynamic_diffs = <<>>
  /\ Len(CallsOf(last, {"price_list_update"})) = 1
  /\ Len(last.calls) = 3
  /\ results[1].success

-----------------------------------------------------------------------------
(* Categories: a product whose desired categories change between documents *)

\* The documents of the category specification: one product, its category
\* attribute absent, empty, or a list of ids (one list repeats an id).
CategoryDocs ==
  {Product(Str("P1"), "Update", None, None, NameA)}
    \cup {Product(Str("P1"), "Update", None, None, NameA @@ Attr("cat", List(q))) :
            q \in {<<>>, <<Str("3")>>, <<Str("1"), Str("2")>>, <<Str("2"), Str("3")>>,
                   <<Str("1"), Str("1")>>}}

SpecCategories ==
  InitWith(Batches(CategoryDocs, MaxProducts), {BaseMapping}) /\ [][Next]_vars

\* the handler for the product handled last issued product_add_update with
\* categories mapped
WroteCategories ==
  /\ Handled
  /\ last.branch = "update"
  /\ last.payloads # <<>>
  /\ ~last.categories.none

\* the ids connected in the current state of any culture
ConnectedAnywhere ==
  UNION {{last.current_by_culture[c].ProductInCategories[i] :
            i \in DOMAIN last.current_by_culture[c].ProductInCategories} : c \in CultureSet}

\* the ids connected somewhere and not desired
NotDesired ==
  ConnectedAnywhere \ {last.categories.ids[i] : i \in DOMAIN last.categories.ids}

\* C11: when an update is written and categories are mapped, the
\* ProductInCategories payload of every culture is one plain entry per desired
\* id, in the desired order, followed by one DeleteConnection entry for exactly
\* each id that is connected in the current state of some culture and is not
\* desired; no id is both a plain and a DeleteConnection entry.
C11_CategoryPayload ==
  WroteCategories =>
    \A k \in DOMAIN last.payloads :
      LET entries == last.payloads[k].ProductInCategories
          n == Len(last.categories.ids)
          plain == {i \in DOMAIN entries : entries[i].ProductInCategoryState = ""}
          deleted == DOMAIN entries \ plain
      IN /\ Len(entries) = n + Cardinality(NotDesired)
         /\ plain = 1..n
         /\ \A i \in plain : entries[i].CategoryId = last.categories.ids[i]
         /\ \A i \in deleted : entries[i].ProductInCategoryState = "DeleteConnection"
         /\ {entries[i].CategoryId : i \in deleted} = NotDesired
         /\ {entries[i].CategoryId : i \in plain}
              \cap {entries[i].CategoryId : i \in deleted} = {}

\* an update is written that disconnects an id connected in the second culture
\* only, and keeps a desired id
C11_RemovesCategoryOfOneCulture ==
  /\ WroteCategories
  /\ last.categories.ids # <<>>
  /\ \E x \in NotDesired :
       /\ \A i \in DOMAIN last.current_by_culture[Cultures[1]].ProductInCategories :
            last.current_by_culture[Cultures[1]].ProductInCategories[i] # x
       /\ \E i \in DOMAIN last.payloads[1].ProductInCategories :
            /\ last.payloads[1].ProductInCategories[i].CategoryId = x
            /\ last.payloads[1].ProductInCategories[i].ProductInCategoryState
                 = "DeleteConnection"

-----------------------------------------------------------------------------
(* Price lists with a discount source and a show source *)

\* As BaseMapping, with the price list of the shipped mapping: a discounted
\* price, clear_discount_on_missing and a show flag, under either policy.
ShowMappings ==
  {[BaseMapping EXCEPT
      !.price_lists =
        <<PriceListMapping("PL1", Selector("attributes", "price", <<>>),
                           Selector("attributes", "disc", <<>>),
                           Selector("attributes", "show", <<>>), TRUE, policy, TRUE)>>] :
     policy \in {"strict", "coerce"}}

\* The documents of the price-list specification: a price, with the discount
\* and the show flag absent, listed without a value, or given.
PriceDocs ==
  {Product(Str("P1"), "Update", None, None, NameA @@ Attr("price", IntV(10)) @@ disc @@ show) :
     disc \in {EmptyDict, Removed("disc"), Attr("disc", IntV(0)), Attr("disc", IntV(7))},
     show \in {EmptyDict, Removed("show"), Attr("show", Bool(TRUE)), Attr("show", Bool(FALSE)),
               Attr("show", Str("true"))}}

SpecPrices == InitWith(Batches(PriceDocs, MaxDetailProducts), ShowMappings) /\ [][Next]_vars

\* the builder of the product handled last built a price-list entry
BuiltPriceEntry ==
  /\ Handled
  /\ last.branch = "update"
  /\ last.builder_ran
  /\ last.price_lists # <<>>

\* the value the feed gives the product handled last for an attribute
FeedValue(code) ==
  ValueOf(_resolve_source(Selector("attributes", code, <<>>), HandledProduct).value)

\* C12: for a price list with clear_discount_on_missing and a show source, the
\* built entry carries DiscountedPriceIncVat = -1 when the product has no
\* discount value, HideProduct = true when the show value is absent, and
\* HideProduct = not show when the show value is a boolean.
C12_SentinelAndFailSafeHide ==
  (BuiltPriceEntry /\ mapping \in ShowMappings) =>
    LET item == last.price_lists[1]
    IN /\ is_empty(FeedValue("disc")) => DictGet(item, "DiscountedPriceIncVat") = IntV(-1)
       /\ is_empty(FeedValue("show")) => DictGet(item, "HideProduct") = Bool(TRUE)
       /\ FeedValue("show").t = "bool" =>
            DictGet(item, "HideProduct") = Bool(FeedValue("show").n = 0)

-----------------------------------------------------------------------------
(* The functions of the engine called on their own *)

\* one call per behaviour: the function, its arguments and what it returned;
\* the process itself does not move
Called(fn, args, ret) ==
  /\ call = NoCall
  /\ call' = [fn |-> fn, args |-> args, ret |-> ret]
  /\ UNCHANGED <<mapping, catalog, feed_changed, dest, checkpoint, clock, runs, pc, export_from, dry_run,
                 started_at, products, idx, results, counts, calls, last, report,
                 mapping_file>>

\* float(k)
Float(k) == [t |-> "float", s |-> "", n |-> k, l |-> <<>>]

\* the values the diff functions are called with: the number 10 as int, float,
\* Decimal and text, another number, a text and None
DiffValues ==
  {IntV(10), Float(10), Decimal(10), Str("10.0000"), Str("10"), IntV(7), Str("A"), None}

\* diff_product_data, diff_stock and diff_dynamic_fields on one key
CallDiff ==
  \E fn \in {"diff_product_data", "diff_stock", "diff_dynamic_fields"},
     current_value \in DiffValues, desired_value \in DiffValues :
    Called(fn, <<current_value, desired_value>>,
           CASE fn = "diff_product_data" ->
                  diff_product_data("Name" :> current_value, "Name" :> desired_value, "sv-SE")
             [] fn = "diff_stock" ->
                  diff_stock("NewStockCount" :> current_value,
                             "NewStockCount" :> desired_value, "sv-SE")
             [] OTHER ->
                  diff_dynamic_fields("atr_colour" :> ("sv-SE" :> current_value),
                                      "atr_colour" :> ("sv-SE" :> desired_value)))

\* the category lists diff_categories is called with: ids as text and as
\* {CategoryId: id} records, None entries, repeated ids
CategoryLists ==
  UNION {[1..k -> {Str("1"), Str("2"), CategoryRecord(Str("1")), CategoryRecord(Str("2")),
                   None}] : k \in 0..2}

CallDiffCategories ==
  \E current_categories \in CategoryLists, desired_categories \in CategoryLists :
    Called("diff_categories", <<current_categories, desired_categories>>,
           diff_categories(current_categories, desired_categories, "sv-SE"))

\* variant of _select_localized: a candidate that is present wins, empty or not
SelectLocalizedFirstPresent(value, m, culture, fallback) ==
  LET Get(d, k) == IF k \in DOMAIN d THEN d[k] ELSE ""
      fallback_culture == IF fallback # "" THEN fallback ELSE Get(m.fallbacks, culture)
      keys == <<Get(m.culture_map, culture), culture,
                IF fallback_culture # "" THEN Get(m.culture_map, fallback_culture) ELSE "",
                fallback_culture>>
      present == SelectSeq(keys, LAMBDA k : k # "" /\ k \in DOMAIN value)
  IN IF present = <<>> THEN None ELSE value[present[1]]

\* sync_engine.py lines 806-829.  value is the localized dict, m holds
\* culture_map and fallbacks of the mapping; "" is an absent key and the
\* fallback None.
_select_localized(value, m, culture, fallback) ==
  LET Get(d, k) == IF k \in DOMAIN d THEN d[k] ELSE ""
      feed_lang == Get(m.culture_map, culture)
      fallback_culture == IF fallback # "" THEN fallback ELSE Get(m.fallbacks, culture)
      fallback_lang == IF fallback_culture # "" THEN Get(m.culture_map, fallback_culture)
                       ELSE ""
      pick(key) == IF key = "" \/ key \notin DOMAIN value THEN None
                   ELSE IF is_empty(value[key]) THEN None
                   ELSE value[key]
  IN IF pick(feed_lang) # None THEN pick(feed_lang)
     ELSE IF pick(culture) # None THEN pick(culture)
     ELSE IF pick(fallback_lang) # None THEN pick(fallback_lang)
     ELSE IF pick(fallback_culture) # None THEN pick(fallback_culture)
     ELSE None

\* the localized dicts: each of the four keys absent, or holding its own text,
\* a blank text or None
LocalizedValues ==
  UNION {{[k \in keys |-> IF k \in blank THEN Str(" ") ELSE IF k \in none THEN None
                          ELSE Str(k)] :
            blank \in SUBSET keys, none \in SUBSET keys} :
         keys \in SUBSET {"sv", "nb", "sv-SE", "nb-NO"}}

\* culture_map (the default of load_mapping, and one without the second
\* culture) and fallbacks (none, and the second culture falling back on the first)
Localizations ==
  {[culture_map |-> cm, fallbacks |-> fb] :
     cm \in {"sv-SE" :> "sv" @@ "nb-NO" :> "nb", "sv-SE" :> "sv"},
     fb \in {EmptyDict, "nb-NO" :> "sv-SE"}}

CallSelectLocalized ==
  \E value \in LocalizedValues, m \in Localizations, culture \in CultureSet,
     fallback \in {"", "sv-SE"} :
    Called("_select_localized", <<value, m, culture, fallback>>,
           _select_localized(value, m, culture, fallback))

\* coerce_value on scalars of every Python type of the feed, for every scalar
\* expected type and both policies
CallCoerceValue ==
  \E value \in {None, Bool(TRUE), Bool(FALSE), IntV(1), Float(1), Decimal(1), Str("7"),
                Str("abc")},
     expected_type \in {"string", "int", "float", "decimal", "bool"},
     policy \in {"strict", "coerce"} :
    Called("coerce_value", <<value, expected_type, policy>>,
           coerce_value(value, expected_type, policy, ""))

\* the dicts over some keys with values from a set, every key present or not
DictsOver(keys, values) == UNION {[present -> values] : present \in SUBSET keys}

\* diff_product_data and diff_stock on dicts of two keys, diff_dynamic_fields
\* on one key over the cultures: every key or culture present on either side
\* or on both
CallDiffDicts ==
  \/ \E fn \in {"diff_product_data", "diff_stock"},
        current \in DictsOver({"Name", "ArticleNumber"}, {Str("A"), Str("B")}),
        desired \in DictsOver({"Name", "ArticleNumber"}, {Str("A"), Str("B")}) :
       Called(fn, <<current, desired, "sv-SE">>,
              IF fn = "diff_product_data" THEN diff_product_data(current, desired, "sv-SE")
              ELSE diff_stock(current, desired, "sv-SE"))
  \/ \E current \in DictsOver({"atr_colour"}, DictsOver(CultureSet, {Str("x"), Str("")})),
        desired \in DictsOver({"atr_colour"}, DictsOver(CultureSet, {Str("x"), Str("")})) :
       Called("diff_dynamic_fields", <<current, desired, "">>,
              diff_dynamic_fields(current, desired))

-----------------------------------------------------------------------------
(* sync_engine.py: auto-discovered dynamic fields *)

\* mapping_loader.py _collect_sources: the attribute codes some source of the
\* mapping selects
mapped_attribute_codes(m) ==
  LET OfEntries(entries) ==
        UNION {{entries[i].source}
                 \cup {entries[i].source_by_culture[c] : c \in DOMAIN entries[i].source_by_culture} :
               i \in DOMAIN entries}
      OfPriceLists ==
        UNION {{m.price_lists[i].price_source, m.price_lists[i].discounted_price_source,
                m.price_lists[i].discount_period_source, m.price_lists[i].hide_product_source} :
               i \in DOMAIN m.price_lists}
      sources == OfEntries(m.product_fields) \cup OfEntries(m.stock_fields)
                   \cup {m.category_fields.source} \cup OfEntries(m.dynamic_fields_allowlist)
                   \cup OfPriceLists
  IN {source.key : source \in {x \in sources : x.root = "attributes" /\ x.key # ""}}

\* AutoDynamicFieldConfig; include_data_types is None, and the attributes of
\* the model carry no dataType, no range and no list value
AutoDynamicFieldConfig(type, coerce, allowed_keys) ==
  [enabled |-> TRUE, type |-> type, coerce |-> coerce, allowed_keys |-> allowed_keys]

\* the order in which a product lists its attributes
CodeOrder == <<"atr_dia", "atr_size", "price", "size_code">>

\* variant of _apply_auto_dynamic_fields: the keys the builder already has are
\* not looked at
AutoOverExisting(auto_config, acc, product, m) ==
  LET codes == SelectSeq(CodeOrder,
                 LAMBDA code : /\ code \in DOMAIN attributes_by_code(product)
                               /\ code \notin mapped_attribute_codes(m)
                               /\ code \in auto_config.allowed_keys)
  IN DynamicLoop([i \in DOMAIN codes |->
                    DynamicFieldMapping(codes[i], Selector("attributes", codes[i], <<>>),
                                        auto_config.type, auto_config.coerce, TRUE)],
                 m, product, acc)

\* lines 901-985: acc holds the dynamic fields and the errors built so far
_apply_auto_dynamic_fields(auto_config, acc, product, m) ==
  LET mapped_attrs == mapped_attribute_codes(m)
      existing_keys == DOMAIN acc.fields
      codes == SelectSeq(CodeOrder,
                 LAMBDA code : /\ code \in DOMAIN attributes_by_code(product)
                               /\ code \notin mapped_attrs
                               /\ code \notin existing_keys
                               /\ code \in auto_config.allowed_keys)
  IN IF auto_config.allowed_keys = {} THEN acc
     ELSE DynamicLoop([i \in DOMAIN codes |->
                         DynamicFieldMapping(codes[i], Selector("attributes", codes[i], <<>>),
                                             auto_config.type, auto_config.coerce, TRUE)],
                      m, product, acc)

\* As BaseMapping, with a dynamic field whose key is not the code of its source.
DeclaredKeyMapping ==
  [BaseMapping EXCEPT
     !.dynamic_fields_allowlist =
       <<DynamicFieldMapping("atr_size", Selector("attributes", "size_code", <<>>),
                             "string", "strict", TRUE)>>]

\* the products of the auto-discovery: each code not listed, listed with its
\* own text as the value, or listed without a value
AutoProducts ==
  {Product(Str("P1"), "Update", None, None,
           [code \in listed |-> AttrDict(code, code \notin removed, Str(code))]) :
     listed \in SUBSET {"atr_dia", "atr_size", "price", "size_code"},
     removed \in SUBSET {"atr_dia", "atr_size"}}

\* lines 362-389 of _build_desired: the declared dynamic fields, then the
\* auto-discovered ones
CallAutoDynamic ==
  \E m \in {BaseMapping, DeclaredKeyMapping}, product \in AutoProducts,
     allowed_keys \in SUBSET {"atr_dia", "atr_size", "price", "size_code"} :
    LET acc == DynamicLoop(m.dynamic_fields_allowlist, m, product,
                           [raised |-> FALSE, errors |-> <<>>, fields |-> EmptyDict])
        auto_config == AutoDynamicFieldConfig("string", "coerce", allowed_keys)
    IN Called("_apply_auto_dynamic_fields", <<auto_config, acc.fields, product, m>>,
              _apply_auto_dynamic_fields(auto_config, acc, product, m))

NextPure ==
  \/ CallDiff
  \/ CallDiffCategories
  \/ CallSelectLocalized
  \/ CallCoerceValue
  \/ CallDiffDicts
  \/ CallAutoDynamic

SpecPure == InitWith({<<>>}, {BaseMapping}) /\ [][NextPure]_vars

\* the representations of the number 10
Tens == {IntV(10), Float(10), Decimal(10), Str("10.0000")}

\* C13: a current and a desired value that denote the same number (int 10,
\* float 10.0, Decimal 10, text "10.0000") produce no diff item in
\* diff_product_data, diff_stock and diff_dynamic_fields.
C13_EqualNumbersDoNotDiffer ==
  (/\ call.fn \in {"diff_product_data", "diff_stock", "diff_dynamic_fields"}
   /\ call.args[1] \in Tens
   /\ call.args[2] \in Tens)
    => call.ret = <<>>

\* the ids a category list names, in order
IdsOf(categories) ==
  LET named == SelectSeq(categories, LAMBDA item : item # None)
  IN [i \in DOMAIN named |-> IF named[i].t = "dict" THEN named[i].l[1].s ELSE named[i].s]

IdSet(categories) == {IdsOf(categories)[i] : i \in DOMAIN IdsOf(categories)}

\* C14: diff_categories compares the current and the desired ids as sets: no
\* diff item when the two id sets are equal, exactly one item (target
\* ProductInCategories, section Categories, both full id lists) when they
\* differ, for lists with repeated ids and {CategoryId: ...} records too.
C14_CategoriesComparedAsSets ==
  call.fn = "diff_categories" =>
    IF IdSet(call.args[1]) = IdSet(call.args[2])
      THEN call.ret = <<>>
      ELSE /\ Len(call.ret) = 1
           /\ call.ret[1].target_field = "ProductInCategories"
           /\ call.ret[1].section = "Categories"
           /\ call.ret[1].old_value = List(IdsOf(call.args[1]))
           /\ call.ret[1].new_value = List(IdsOf(call.args[2]))

\* the candidate keys of a call of _select_localized, in the order they are
\* tried; "" where the mapping gives none
Candidates ==
  LET m == call.args[2]
      culture == call.args[3]
      fallback_culture == IF call.args[4] # "" THEN call.args[4]
                          ELSE IF culture \in DOMAIN m.fallbacks THEN m.fallbacks[culture]
                          ELSE ""
      LangOf(c) == IF c \in DOMAIN m.culture_map THEN m.culture_map[c] ELSE ""
  IN <<LangOf(culture), culture, LangOf(fallback_culture), fallback_culture>>

\* candidate i is present in the value map and not empty
Qualifies(i) ==
  /\ Candidates[i] # ""
  /\ Candidates[i] \in DOMAIN call.args[1]
  /\ ~is_empty(call.args[1][Candidates[i]])

\* C15: _select_localized tries feed language, culture, feed language of the
\* fallback culture, fallback culture, in this order, and returns the value of
\* the first candidate that is present in the value map and non-empty; a
\* present but empty value is skipped; None if no candidate qualifies.
C15_FirstNonEmptyCandidate ==
  call.fn = "_select_localized" =>
    IF \E i \in 1..4 : Qualifies(i)
      THEN \E i \in 1..4 :
             /\ Qualifies(i)
             /\ \A j \in 1..(i - 1) : ~Qualifies(j)
             /\ call.ret = call.args[1][Candidates[i]]
      ELSE call.ret = None

\* the feed language and the culture are present but empty, and the value of
\* the fallback language is returned
C15_EmptyValuesSkipped ==
  /\ call.fn = "_select_localized"
  /\ \A i \in 1..2 : Candidates[i] \in DOMAIN call.args[1] /\ ~Qualifies(i)
  /\ Qualifies(3)
  /\ Candidates[3] \notin {Candidates[1], Candidates[2]}
  /\ call.ret = call.args[1][Candidates[3]]

\* C16: coerce_value never accepts a bool where int or float is expected: under
\* both policies and for both target types the call ends in a coercion failure.
C16_BoolNeverNumber ==
  (/\ call.fn = "coerce_value"
   /\ call.args[1].t = "bool"
   /\ call.args[2] \in {"int", "float"})
    => call.ret.kind = "ValidationError"

-----------------------------------------------------------------------------
(* mapping_loader.py and the head of main() *)

MappingError(message) == [kind |-> "MappingError", value |-> None, message |-> message]
Parsed(value) == [kind |-> "ok", value |-> value, message |-> ""]

TRANSFORM_REGISTRY == {"newline_to_br", "format_price", "join_list", "data_register_label"}

\* transform entries are given by name; TransformSpec(name, {}) is the name
_parse_transforms(items) ==
  LET unknown == {i \in DOMAIN items : items[i] \notin TRANSFORM_REGISTRY}
  IN IF unknown # {}
       THEN MappingError("Unknown transform: "
                           \o items[CHOOSE i \in unknown : \A j \in unknown : i <= j])
       ELSE Parsed(items)

\* the entries of the documents modelled here declare no registered transform,
\* so a parsed entry is the raw one without its (empty) transform list
_parse_mapping_entry(item, require_target, require_key) ==
  IF require_target /\ "target" \notin DOMAIN item
    THEN MappingError("Mapping entry is missing target")
  ELSE IF require_key /\ "key" \notin DOMAIN item
    THEN MappingError("Dynamic field mapping entry is missing key")
  ELSE IF item.source = NoSource /\ item.source_by_culture = EmptyDict
    THEN MappingError("Mapping entry must include source or source_by_culture")
  ELSE IF item.coerce \notin {"strict", "coerce"}
    THEN MappingError("coerce must be 'strict' or 'coerce'")
  ELSE IF _parse_transforms(item.transforms).kind = "MappingError"
    THEN _parse_transforms(item.transforms)
  ELSE Parsed([f \in DOMAIN item \ {"transforms"} |-> item[f]])

\* the loop over the items of a section: the first error leaves it
ParseEach(parsed) ==
  LET failed == {i \in DOMAIN parsed : parsed[i].kind = "MappingError"}
  IN IF failed # {} THEN parsed[CHOOSE i \in failed : \A j \in failed : i <= j]
     ELSE Parsed([i \in DOMAIN parsed |-> parsed[i].value])

_parse_field_mappings(raw, name) ==
  IF name \notin DOMAIN raw \/ DictGet(raw, name) = <<>>
    THEN MappingError(name \o " must be a non-empty list")
    ELSE ParseEach([i \in DOMAIN raw[name] |-> _parse_mapping_entry(raw[name][i], TRUE, FALSE)])

_parse_dynamic_mappings(raw) ==
  IF "dynamic_fields_allowlist" \notin DOMAIN raw
    THEN MappingError("dynamic_fields_allowlist must be a list")
    ELSE ParseEach([i \in DOMAIN raw.dynamic_fields_allowlist |->
                      _parse_mapping_entry(raw.dynamic_fields_allowlist[i], FALSE, TRUE)])

_parse_category_mapping(item) ==
  IF item.source = NoSource THEN MappingError("category_fields.source is required")
  ELSE IF item.strategy # "replace"
    THEN MappingError("category_fields.strategy must be 'replace'")
  ELSE Parsed(item)

_parse_price_lists(raw) ==
  IF "price_lists" \notin DOMAIN raw THEN Parsed(<<>>)
  ELSE ParseEach([i \in DOMAIN raw.price_lists |->
         IF raw.price_lists[i].price_list_id = "" \/ raw.price_lists[i].price_source = NoSource
           THEN MappingError("price_lists entries require price_list_id and price_source")
         ELSE IF raw.price_lists[i].coerce \notin {"strict", "coerce"}
           THEN MappingError("price_lists.coerce must be 'strict' or 'coerce'")
         ELSE Parsed(raw.price_lists[i])])

\* raw is the document yaml.safe_load returned, a dictionary
load_mapping(raw) ==
  LET product_fields == _parse_field_mappings(raw, "product_fields")
      stock_fields == _parse_field_mappings(raw, "stock_fields")
      category_fields == _parse_category_mapping(raw.category_fields)
      dynamic_fields == _parse_dynamic_mappings(raw)
      price_lists == _parse_price_lists(raw)
  IN IF "version" \notin DOMAIN raw THEN MappingError("Mapping version must be an integer")
     ELSE IF "cultures" \notin DOMAIN raw \/ DictGet(raw, "cultures") = <<>>
       THEN MappingError("Mapping cultures must be a non-empty list")
     ELSE IF product_fields.kind = "MappingError" THEN product_fields
     ELSE IF stock_fields.kind = "MappingError" THEN stock_fields
     ELSE IF "category_fields" \notin DOMAIN raw
       THEN MappingError("category_fields must be a mapping object")
     ELSE IF category_fields.kind = "MappingError" THEN category_fields
     ELSE IF dynamic_fields.kind = "MappingError" THEN dynamic_fields
     ELSE IF price_lists.kind = "MappingError" THEN price_lists
     ELSE Parsed([cultures |-> raw.cultures,
                  product_fields |-> product_fields.value,
                  stock_fields |-> stock_fields.value,
                  category_fields |-> category_fields.value,
                  dynamic_fields_allowlist |-> dynamic_fields.value,
                  price_lists |-> price_lists.value])

\* a mapping entry as the document gives it
RawEntry(entry, coerce, transforms) ==
  [f \in DOMAIN entry \cup {"transforms"} |->
     IF f = "transforms" THEN transforms ELSE IF f = "coerce" THEN coerce ELSE entry[f]]

\* the document of BaseMapping with one defect: a section left out, a
\* transform that is not registered, or a coercion policy that does not exist
RawMapping(defect, section) ==
  LET coerce(name, given) == IF defect = "coerce" /\ section = name THEN "lenient" ELSE given
      transforms(name) == IF defect = "transform" /\ section = name THEN <<"uppercase">>
                          ELSE <<>>
      entries(name) == [i \in DOMAIN BaseMapping[name] |->
                          RawEntry(BaseMapping[name][i],
                                   coerce(name, BaseMapping[name][i].coerce),
                                   transforms(name))]
      full == [version |-> 1,
               cultures |-> BaseMapping.cultures,
               product_fields |-> entries("product_fields"),
               stock_fields |-> entries("stock_fields"),
               category_fields |->
                 [BaseMapping.category_fields EXCEPT
                    !.coerce = coerce("category_fields", @)],
               dynamic_fields_allowlist |-> entries("dynamic_fields_allowlist"),
               price_lists |->
                 [i \in DOMAIN BaseMapping.price_lists |->
                    [BaseMapping.price_lists[i] EXCEPT !.coerce = coerce("price_lists", @)]]]
  IN IF defect = "missing" THEN [k \in DOMAIN full \ {section} |-> full[k]] ELSE full

EntrySections == {"product_fields", "stock_fields", "dynamic_fields_allowlist"}

MappingFiles ==
  {RawMapping("none", "")}
    \cup {RawMapping("missing", name) :
            name \in EntrySections \cup {"version", "cultures", "category_fields", "price_lists"}}
    \cup {RawMapping("transform", name) : name \in EntrySections}
    \cup {RawMapping("coerce", name) :
            name \in EntrySections \cup {"category_fields", "price_lists"}}

\* main() lines 41-57: the mapping is loaded before anything else; a
\* MappingError ends the process with code 2, validate-mapping ends it with 0
LoadMapping ==
  /\ pc = "start"
  /\ \E command \in {"sync", "validate-mapping"} :
       IF load_mapping(mapping_file).kind = "MappingError"
         THEN pc' = "mapping_invalid" /\ UNCHANGED mapping
         ELSE /\ mapping' = load_mapping(mapping_file).value
              /\ pc' = IF command = "validate-mapping" THEN "validated" ELSE "idle"
  /\ UNCHANGED <<catalog, feed_changed, dest, checkpoint, clock, runs, export_from, dry_run, started_at,
                 products, idx, results, counts, calls, last, report, mapping_file, call>>

InitMain ==
  /\ mapping_file \in MappingFiles
  /\ mapping = NoFile
  /\ catalog \in Batches(CategoryDocs, MaxDetailProducts)
  /\ feed_changed = {}
  /\ dest = EmptyDestination
  /\ checkpoint = 0
  /\ clock = 2
  /\ runs = 0
  /\ pc = "start"
  /\ export_from = 0
  /\ dry_run = FALSE
  /\ started_at = 0
  /\ products = <<>>
  /\ idx = 0
  /\ results = <<>>
  /\ counts = ZeroCounts
  /\ calls = <<>>
  /\ last = NoLocals
  /\ report = <<>>
  /\ call = NoCall

NextMain == LoadMapping \/ Next

SpecMain == InitMain /\ [][NextMain]_vars

\* the entries of the entry sections the document has
RawEntries ==
  UNION {{mapping_file[name][i] : i \in DOMAIN mapping_file[name]} :
           name \in EntrySections \cap DOMAIN mapping_file}

\* the coercion policies the document declares, in entries, price lists and
\* the category mapping
DeclaredPolicies ==
  {e.coerce : e \in RawEntries}
    \cup (IF "price_lists" \in DOMAIN mapping_file
            THEN {mapping_file.price_lists[i].coerce : i \in DOMAIN mapping_file.price_lists}
            ELSE {})
    \cup (IF "category_fields" \in DOMAIN mapping_file
            THEN {mapping_file.category_fields.coerce} ELSE {})

\* the mapping document is invalid: a required section is missing, a transform
\* is not registered, or a coercion policy is neither strict nor coerce
InvalidMapping ==
  \/ \E name \in EntrySections \cup {"version", "cultures", "category_fields"} :
       name \notin DOMAIN mapping_file
  \/ \E e \in RawEntries : \E i \in DOMAIN e.transforms : e.transforms[i] \notin TRANSFORM_REGISTRY
  \/ \E policy \in DeclaredPolicies : policy \notin {"strict", "coerce"}

\* C17: an invalid mapping document (missing required section, unknown
\* transform, invalid coercion policy) makes the load fail with the
\* mapping-invalid error, and the process exits before any feed or destination
\* call; so no unregistered transform is part of a loaded mapping.
C17_InvalidMappingNeverRuns ==
  (mapping_file # NoFile /\ InvalidMapping)
    => /\ pc \in {"start", "mapping_invalid"}
       /\ calls = <<>>
       /\ products = <<>>

-----------------------------------------------------------------------------
(* The order of the loop *)

\* the product number a result carries for a document of the feed
ResultNo(product) ==
  IF Falsy(_get_product_no(product)) THEN "" ELSE _get_product_no(product).s

\* the documents the loop has entered: the handled ones, and the one whose
\* handler raised
Entered == IF pc = "raised" THEN idx + 1 ELSE idx

\* the calls of the run follow the feed: of two calls, the earlier one belongs
\* to a document that is not behind the document of the later one
CallsFollowFeed ==
  \A i, j \in DOMAIN calls :
    i < j => \E p, q \in 1..Entered :
               /\ p <= q
               /\ ResultNo(products[p]) = calls[i].product_no
               /\ ResultNo(products[q]) = calls[j].product_no

\* the handler of the last product read every culture, in the order of the
\* mapping, before position k of its calls
ReadEveryCultureBefore(k) ==
  /\ k > Len(mapping.cultures)
  /\ \A c \in DOMAIN mapping.cultures :
       last.calls[c] = Call("product_get", last.calls[k].product_no, mapping.cultures[c], TRUE)

\* C18: the products are handled one at a time in the order of the feed, each
\* to its end before the next, and the report lists the results in that order;
\* within one product no diff is computed and no write is issued before
\* product_get has returned for every culture of the mapping.
C18_FeedOrderAndReadsFirst ==
  /\ pc \in {"loop", "done", "raised"} =>
       /\ Len(results) = idx
       /\ idx <= Len(products)
       /\ \A i \in DOMAIN results : results[i].product_no = ResultNo(products[i])
       /\ CallsFollowFeed
  /\ pc = "done" => report[1].products = results /\ Len(results) = Len(products)
  /\ \A k \in DOMAIN last.calls :
       last.calls[k].op \in {"product_add_update", "dyn_save", "price_list_update"}
         => ReadEveryCultureBefore(k)
  /\ (last.diffs # <<>> \/ last.dynamic_diffs # <<>>) =>
       /\ Len(last.calls) >= Len(mapping.cultures)
       /\ \A c \in DOMAIN mapping.cultures :
            last.calls[c].op = "product_get" /\ last.calls[c].culture = mapping.cultures[c]
              /\ last.calls[c].ok

\* a run over two products with different numbers, both written after their
\* reads, has ended
C18_TwoProductsWritten ==
  /\ pc = "done"
  /\ Len(results) = 2
  /\ results[1].product_no = "P2"
  /\ results[2].product_no = "P1"
  /\ \A i \in 1..2 : results[i].action = "update"
  /\ \E i, j \in DOMAIN calls :
       /\ i < j
       /\ calls[i].op = "product_add_update" /\ calls[i].product_no = "P2"
       /\ calls[j].op = "product_get" /\ calls[j].product_no = "P1"

-----------------------------------------------------------------------------
(* The write phase *)

\* the place of a write operation in the write phase
WriteRank(op) ==
  CASE op = "product_add_update" -> 1
    [] op = "dyn_save" -> 2
    [] op = "price_list_update" -> 3
    [] OTHER -> 0

\* the handler of the last product called product_add_update, and the call
\* raised or answered with a failure for some culture
AddUpdateFailed ==
  /\ \E k \in DOMAIN last.calls : last.calls[k].op = "product_add_update"
  /\ \E i \in DOMAIN last.add_flags : ~last.add_flags[i]

\* C19: the write phase of a product calls product_add_update, then dyn_save,
\* then price_list_update; when product_add_update fails for a culture, the
\* failures become one error, dyn_save and price_list_update are not called
\* for the product, its result is update with success false, and the run goes
\* on with the next product.
C19_WriteOrderAndAbort ==
  /\ \A i, j \in DOMAIN last.calls :
       (i < j /\ WriteRank(last.calls[j].op) > 0) =>
         WriteRank(last.calls[i].op) < WriteRank(last.calls[j].op)
  /\ AddUpdateFailed =>
       /\ \A k \in DOMAIN last.calls : last.calls[k].op \notin {"dyn_save", "price_list_update"}
       /\ pc # "raised"
       /\ idx >= 1
       /\ results[idx].action = "update"
       /\ ~results[idx].success
       /\ Len(results[idx].errors) = 1
       /\ results[idx].product_no = last.calls[1].product_no

\* product_add_update failed for one culture only, for a product that has
\* dynamic field changes and price lists, and the loop has gone on to end the
\* run with the next product handled
C19_AbortedWriteThenNextProduct ==
  /\ pc = "loop"
  /\ idx = 2
  /\ results[1].action = "update" /\ ~results[1].success
  /\ results[1].errors = <<"Product_AddUpdate failed: nb-NO:Failed">>
  /\ results[1].dynamic_changes > 0
  /\ \E k \in DOMAIN calls : calls[k].op = "product_add_update" /\ calls[k].product_no = "P2"
  /\ \A k \in DOMAIN calls :
       calls[k].product_no = "P2" => calls[k].op \in {"product_get", "product_add_update"}
  /\ results[2].product_no = "P1"

-----------------------------------------------------------------------------
(* The results *)

\* the success flag and the errors of a result fit its action
FlagFitsAction(result) ==
  /\ result.action \in {"skip", "delete", "update", "no_change", "dry_run", "read_failed"}
  /\ result.action \in {"skip", "read_failed"} => ~result.success /\ result.errors # <<>>
  /\ result.action \in {"no_change", "dry_run"} => result.success /\ result.errors = <<>>

\* C20: every result has an action among skip, delete, update, no_change,
\* dry_run and read_failed; every product the loop has taken has exactly one
\* result; skip and read_failed have success false and errors, no_change and
\* dry_run have success true and no errors.
C20_OneFittingResultPerProduct ==
  /\ \A i \in DOMAIN results : FlagFitsAction(results[i])
  /\ pc \in {"loop", "done", "raised"} => Len(results) = Entered
  /\ pc = "done" => Len(report[1].products) = Len(products)

-----------------------------------------------------------------------------
(* The diff engine looks at desired keys only *)

\* a diff of dicts was called: current, desired and a culture
DiffOfDicts ==
  /\ call.fn \in {"diff_product_data", "diff_stock", "diff_dynamic_fields"}
  /\ Len(call.args) = 3

\* the desired state names the key, and for dynamic fields the culture, of an item
InDesired(item) ==
  /\ item.target_field \in DOMAIN call.args[2]
  /\ call.fn = "diff_dynamic_fields" => item.culture \in DOMAIN call.args[2][item.target_field]

\* C21: the diff engine emits items only for keys, and for dynamic fields
\* (key, culture) pairs, of the desired state; a key that only the current
\* state has never produces an item, so a dynamic field is cleared only by a
\* clearing value the builder emitted.
C21_OnlyDesiredKeysDiffer ==
  DiffOfDicts =>
    \A i \in DOMAIN call.ret :
      /\ InDesired(call.ret[i])
      /\ call.ret[i].new_value =
           IF call.fn = "diff_dynamic_fields"
             THEN call.args[2][call.ret[i].target_field][call.ret[i].culture]
             ELSE call.args[2][call.ret[i].target_field]

\* the current state holds a dynamic field with a value for both cultures, the
\* desired state clears it for one culture and does not name the other: one
\* item, for the culture cleared
C21_ClearedWhereEmitted ==
  /\ call.fn = "diff_dynamic_fields"
  /\ Len(call.args) = 3
  /\ call.args[1] = ("atr_colour" :> [c \in CultureSet |-> Str("x")])
  /\ call.args[2] = ("atr_colour" :> ("sv-SE" :> Str("")))
  /\ Len(call.ret) = 1
  /\ call.ret[1].culture = "sv-SE"

-----------------------------------------------------------------------------
(* Dynamic fields without a source value *)

\* the handler of the last product built the desired state without errors
BuiltWithoutErrors ==
  /\ pc = "loop"
  /\ idx >= 1
  /\ last.branch = "update"
  /\ last.builder_ran
  /\ last.errors = <<>>

\* the source attribute of a dynamic field entry is not in the product, or is
\* listed without a value
SourceAbsent(entry, product) ==
  /\ entry.source.root = "attributes"
  /\ \/ entry.source.key \notin DOMAIN product.attributes
     \/ product.attributes[entry.source.key].n = 0

\* C22: an optional dynamic field entry whose source value is absent, the
\* attribute being listed without a value or not in the product at all,
\* resolves to the empty string for every culture, and the key goes to
\* dyn_save with the value "".
C22_AbsentOptionalIsCleared ==
  BuiltWithoutErrors =>
    \A i \in DOMAIN mapping.dynamic_fields_allowlist :
      LET entry == mapping.dynamic_fields_allowlist[i]
      IN (entry.optional /\ SourceAbsent(entry, products[idx])) =>
           /\ entry.key \in DOMAIN last.dynamic_fields
           /\ last.dynamic_fields[entry.key] = [c \in CultureSet |-> Str("")]
           /\ \A k \in DOMAIN last.calls :
                last.calls[k].op = "dyn_save" =>
                  \E j \in DOMAIN last.dyn_inputs :
                    /\ last.dyn_inputs[j].Key = entry.key
                    /\ last.dyn_inputs[j].ItemValues = [c \in CultureSet |-> Str("")]

-----------------------------------------------------------------------------
(* Coercion failures *)

\* the product whose handler ran last
EnteredProduct == IF pc = "raised" THEN products[idx + 1] ELSE products[idx]

\* the handler of the last product ran the builder, under a mapping whose
\* product fields all have a plain source
BuilderRan ==
  /\ pc \in {"loop", "raised"}
  /\ Entered >= 1
  /\ last.branch = "update"
  /\ last.builder_ran
  /\ \A i \in DOMAIN mapping.product_fields : mapping.product_fields[i].source # NoSource

\* the price of a price list, as the feed gives it
FeedPrice(entry) == ValueOf(_resolve_source(entry.price_source, EnteredProduct).value)

\* the price is there and cannot be converted to the type of the price list
PriceFailsCoercion(entry) ==
  /\ ~is_empty(FeedPrice(entry))
  /\ coerce_value(FeedPrice(entry), entry.type, entry.coerce, "").kind # "value"

\* the error the strict policy appends for the price
PriceError(entry) ==
  entry.price_list_id \o ": "
    \o coerce_value(FeedPrice(entry), entry.type, entry.coerce, "").message

\* C23: a coercion failure under the lenient policy adds no error, the raw
\* value passes through unchanged and the product is not skipped for it; under
\* the strict policy it appends a field error and the product ends at skip.
C23_CoercionFailureByPolicy ==
  BuilderRan =>
    \A i \in DOMAIN mapping.price_lists :
      LET entry == mapping.price_lists[i]
      IN PriceFailsCoercion(entry) =>
           IF entry.coerce = "coerce"
             THEN /\ pc # "raised"
                  /\ \A k \in DOMAIN last.errors : last.errors[k] # PriceError(entry)
                  /\ last.errors = <<>> =>
                       \E j \in DOMAIN last.price_lists :
                         last.price_lists[j]["PriceIncVat"] = FeedPrice(entry)
             ELSE /\ pc # "raised"
                  /\ \E k \in DOMAIN last.errors : last.errors[k] = PriceError(entry)
                  /\ results[idx].action = "skip"

-----------------------------------------------------------------------------
(* Auto-discovery *)

\* the keys a call of _apply_auto_dynamic_fields added
Synthesized == DOMAIN call.ret.fields \ DOMAIN call.args[2]

\* C24: every dynamic field key that auto-discovery synthesizes is an attribute
\* code of the product that is on the allow-list, is not selected by a source
\* of the mapping and is not a key the builder already has; a key the builder
\* already has keeps its values; with an empty allow-list nothing is
\* synthesized.
C24_AutoDiscoveryStaysInBounds ==
  call.fn = "_apply_auto_dynamic_fields" =>
    /\ \A key \in Synthesized :
         /\ key \in DOMAIN call.args[3].attributes
         /\ key \in call.args[1].allowed_keys
         /\ key \notin mapped_attribute_codes(call.args[4])
    /\ \A key \in DOMAIN call.args[2] : call.ret.fields[key] = call.args[2][key]
    /\ call.args[1].allowed_keys = {} => call.ret.fields = call.args[2]

\* the declared field atr_size has its value from size_code, the product also
\* lists atr_size and atr_dia, both on the allow-list: atr_dia is synthesized
\* and atr_size keeps the declared value
C24_SynthesizedBesideDeclared ==
  /\ call.fn = "_apply_auto_dynamic_fields"
  /\ call.args[1].allowed_keys = {"atr_size", "atr_dia", "price"}
  /\ {"atr_size", "atr_dia", "price"} \subseteq DOMAIN call.args[3].attributes
  /\ Synthesized = {"atr_dia"}
  /\ call.ret.fields["atr_size"] = [c \in CultureSet |-> Str("size_code")]
  /\ call.ret.fields["atr_dia"] = [c \in CultureSet |-> Str("atr_dia")]

-----------------------------------------------------------------------------
(* http_utils.py *)

RETRYABLE_STATUS == {408, 429, 500, 502, 503, 504}

\* what session.request does: it raises RequestException, or returns a
\* response with a status
RequestOutcomes ==
  {[raise |-> TRUE, status |-> 0]}
    \cup {[raise |-> FALSE, status |-> status] : status \in {200, 404, 500, 503}}

\* variant of request_with_retry: an exception does not use up an attempt
RetryExceptionsForever(r, retries, outcome) ==
  IF ~outcome.raise
    THEN IF outcome.status \in RETRYABLE_STATUS /\ r.attempt < retries
           THEN [r EXCEPT !.attempt = @ + 1, !.requests = Append(@, outcome)]
           ELSE [r EXCEPT !.requests = Append(@, outcome), !.pc = "returned"]
    ELSE IF Len(r.requests) > MaxRetries + 1
      THEN [r EXCEPT !.requests = Append(@, outcome), !.pc = "raised"]
      ELSE [r EXCEPT !.requests = Append(@, outcome)]

\* lines 28-49: one round of the while loop, on the locals r (attempt, the
\* outcomes of session.request so far, and where the function is)
request_with_retry(r, retries, outcome) ==
  IF ~outcome.raise
    THEN IF outcome.status \in RETRYABLE_STATUS /\ r.attempt < retries
           THEN [r EXCEPT !.attempt = @ + 1, !.requests = Append(@, outcome)]
           ELSE [r EXCEPT !.requests = Append(@, outcome), !.pc = "returned"]
    ELSE IF r.attempt >= retries
      THEN [r EXCEPT !.requests = Append(@, outcome), !.pc = "raised"]
      ELSE [r EXCEPT !.attempt = @ + 1, !.requests = Append(@, outcome)]

\* lines 26-27: request_with_retry is entered
RetryStart ==
  /\ call = NoCall
  /\ \E retries \in 0..MaxRetries :
       call' = [fn |-> "request_with_retry", args |-> <<retries>>,
                ret |-> [attempt |-> 0, requests |-> <<>>, pc |-> "loop"]]
  /\ UNCHANGED <<mapping, catalog, feed_changed, dest, checkpoint, clock, runs, pc, export_from, dry_run,
                 started_at, products, idx, results, counts, calls, last, report,
                 mapping_file>>

RetryRound ==
  /\ call.fn = "request_with_retry"
  /\ call.ret.pc = "loop"
  /\ \E outcome \in RequestOutcomes :
       call' = [call EXCEPT !.ret = request_with_retry(call.ret, call.args[1], outcome)]
  /\ UNCHANGED <<mapping, catalog, feed_changed, dest, checkpoint, clock, runs, pc, export_from, dry_run,
                 started_at, products, idx, results, counts, calls, last, report,
                 mapping_file>>

NextRetry == RetryStart \/ RetryRound

\* session.request returns or raises within its timeout, so the loop goes on
SpecRetry ==
  InitWith({<<>>}, {BaseMapping}) /\ [][NextRetry]_vars /\ WF_vars(NextRetry)

\* an outcome after which the loop may go round again
Retryable(outcome) == outcome.raise \/ outcome.status \in RETRYABLE_STATUS

\* what holds of request_with_retry at every moment
RetryBounded ==
  call.fn = "request_with_retry" =>
    LET r == call.ret
        retries == call.args[1]
        n == Len(r.requests)
    IN /\ n <= retries + 1
       /\ \A i \in 1..(n - 1) : Retryable(r.requests[i])
       /\ r.pc = "loop" => n = r.attempt /\ \A i \in 1..n : Retryable(r.requests[i])
       /\ r.pc = "returned" =>
            /\ ~r.requests[n].raise
            /\ r.requests[n].status \in RETRYABLE_STATUS => n = retries + 1
       /\ r.pc = "raised" => r.requests[n].raise /\ n = retries + 1

\* C25: request_with_retry ends after at most retries + 1 calls of
\* session.request, whatever the outcomes: it returns the first response whose
\* status is not retryable, returns the last retryable response when the
\* retries are used up, and raises the request exception again when the
\* retries are used up.
C25_RetryTerminates ==
  /\ []RetryBounded
  /\ <>(call.fn = "request_with_retry" /\ call.ret.pc \in {"returned", "raised"})

\* statuses and exceptions alternate until the retries are used up, and the
\* last exception is raised
C25_MixedOutcomesUseOneCounter ==
  /\ call.fn = "request_with_retry"
  /\ call.args[1] = 3
  /\ call.ret.pc = "raised"
  /\ Len(call.ret.requests) = 4
  /\ ~call.ret.requests[1].raise
  /\ call.ret.requests[2].raise
  /\ ~call.ret.requests[3].raise

-----------------------------------------------------------------------------
(* feed_client.py *)

\* the bodies the export endpoint answers with; numberOfElements, when the
\* body has it, is the length of content
Payloads ==
  {[content |-> content, totalPages |-> totalPages, last |-> lastPage,
    pageable |-> pageable, numberOfElements |-> numberOfElements] :
     content \in {<<>>, <<"A">>, <<"A", "B">>},
     totalPages \in {None, IntV(0), IntV(1), IntV(3)},
     lastPage \in BOOLEAN,
     pageable \in {[paged |-> TRUE, unpaged |-> FALSE],
                   [paged |-> FALSE, unpaged |-> FALSE],
                   [paged |-> TRUE, unpaged |-> TRUE]},
     numberOfElements \in {None, IntV(0), IntV(1), IntV(2)}}

ConsistentPayloads ==
  {payload \in Payloads :
     payload.numberOfElements \in {None, IntV(Len(payload.content))}}

\* all_content[:limit] for limit > 0
Truncate(seq, n) == SubSeq(seq, 1, IF Len(seq) < n THEN Len(seq) ELSE n)

\* variant of fetch_products: a limit of 0 is a limit
FetchWithZeroLimit(f, limit, payload) ==
  LET all_content == f.all_content \o payload.content
      total_pages == IF payload.totalPages = None THEN f.total_pages
                     ELSE payload.totalPages
      g == [f EXCEPT !.requested = Append(@, f.page), !.pages = Append(@, payload),
                     !.all_content = all_content, !.total_pages = total_pages]
  IN IF limit # None /\ Len(all_content) >= limit.n
       THEN [g EXCEPT !.all_content = Truncate(all_content, limit.n),
                      !.pc = "returned"]
     ELSE IF payload.last
       THEN [g EXCEPT !.pc = "returned"]
     ELSE IF total_pages # None
             /\ f.page >= (IF total_pages.n - 1 > 0 THEN total_pages.n - 1 ELSE 0)
       THEN [g EXCEPT !.pc = "returned"]
     ELSE IF ~payload.pageable.paged \/ payload.pageable.unpaged
       THEN [g EXCEPT !.pc = "returned"]
     ELSE IF (IF payload.numberOfElements = None THEN Len(payload.content)
              ELSE payload.numberOfElements.n) = 0
       THEN [g EXCEPT !.pc = "returned"]
     ELSE [g EXCEPT !.page = @ + 1]

\* lines 114-170: one round of the while loop on the locals f, for the body
\* the request of page f.page is answered with
fetch_products(f, limit, payload) ==
  LET all_content == f.all_content \o payload.content
      total_pages == IF payload.totalPages = None THEN f.total_pages
                     ELSE payload.totalPages
      g == [f EXCEPT !.requested = Append(@, f.page), !.pages = Append(@, payload),
                     !.all_content = all_content, !.total_pages = total_pages]
  IN IF limit # None /\ limit.n # 0 /\ Len(all_content) >= limit.n
       THEN [g EXCEPT !.all_content = Truncate(all_content, limit.n),
                      !.pc = "returned"]
     ELSE IF payload.last
       THEN [g EXCEPT !.pc = "returned"]
     ELSE IF total_pages # None
             /\ f.page >= (IF total_pages.n - 1 > 0 THEN total_pages.n - 1 ELSE 0)
       THEN [g EXCEPT !.pc = "returned"]
     ELSE IF ~payload.pageable.paged \/ payload.pageable.unpaged
       THEN [g EXCEPT !.pc = "returned"]
     ELSE IF (IF payload.numberOfElements = None THEN Len(payload.content)
              ELSE payload.numberOfElements.n) = 0
       THEN [g EXCEPT !.pc = "returned"]
     ELSE [g EXCEPT !.page = @ + 1]

\* lines 98-112: fetch_products is entered, with --limit absent or a number
FetchStart ==
  /\ call = NoCall
  /\ \E limit \in {None, IntV(0), IntV(1), IntV(2)} :
       call' = [fn |-> "fetch_products", args |-> <<limit>>,
                ret |-> [page |-> 0, all_content |-> <<>>, total_pages |-> None,
                         requested |-> <<>>, pages |-> <<>>, pc |-> "loop"]]
  /\ UNCHANGED <<mapping, catalog, feed_changed, dest, checkpoint, clock, runs, pc, export_from, dry_run,
                 started_at, products, idx, results, counts, calls, last, report,
                 mapping_file>>

\* lines 131-170: the page is requested and answered with a body
FetchPage ==
  /\ call.fn = "fetch_products"
  /\ call.ret.pc = "loop"
  /\ call.ret.page < MaxPages
  /\ \E payload \in ConsistentPayloads :
       call' = [call EXCEPT !.ret = fetch_products(call.ret, call.args[1], payload)]
  /\ UNCHANGED <<mapping, catalog, feed_changed, dest, checkpoint, clock, runs, pc, export_from, dry_run,
                 started_at, products, idx, results, counts, calls, last, report,
                 mapping_file>>

\* lines 141-143, 176-178: the request fails or raise_for_status raises
FetchPageFails ==
  /\ call.fn = "fetch_products"
  /\ call.ret.pc = "loop"
  /\ call.ret.page < MaxPages
  /\ call' = [call EXCEPT !.ret.requested = Append(@, call.ret.page),
                          !.ret.pc = "raised"]
  /\ UNCHANGED <<mapping, catalog, feed_changed, dest, checkpoint, clock, runs, pc, export_from, dry_run,
                 started_at, products, idx, results, counts, calls, last, report,
                 mapping_file>>

NextFeed == FetchStart \/ FetchPage \/ FetchPageFails

SpecFeed == InitWith({<<>>}, {BaseMapping}) /\ [][NextFeed]_vars

RECURSIVE PageContents(_)
PageContents(pages) ==
  IF pages = <<>> THEN <<>>
  ELSE PageContents(SubSeq(pages, 1, Len(pages) - 1)) \o pages[Len(pages)].content

\* the body ends the paging: marked last, the final page by totalPages,
\* unpaged, or empty
EndsPaging(pages, i) ==
  \/ pages[i].last
  \/ \E j \in 1..i :
       /\ pages[j].totalPages # None
       /\ \A k \in (j + 1)..i : pages[k].totalPages = None
       /\ i - 1 >= pages[j].totalPages.n - 1
  \/ ~pages[i].pageable.paged \/ pages[i].pageable.unpaged
  \/ pages[i].content = <<>>

PagesInOrder(f) ==
  /\ \A i \in 1..Len(f.requested) : f.requested[i] = i - 1
  /\ \A i \in 1..(Len(f.pages) - 1) : ~EndsPaging(f.pages, i)

ReturnsConcatenation(f) ==
  f.pc = "returned" => f.all_content = PageContents(f.pages)

LimitKept(f, limit) ==
  /\ f.pc = "returned" =>
       /\ Len(f.all_content) <= limit.n
       /\ f.all_content = Truncate(PageContents(f.pages), limit.n)
  /\ \A i \in 1..(Len(f.pages) - 1) :
       Len(PageContents(SubSeq(f.pages, 1, i))) < limit.n

\* C26: fetch_products requests the pages 0, 1, 2, ... in this order and
\* returns their contents joined in page order; it stops after the page
\* marked last, the final page by totalPages, an unpaged answer or an empty
\* page; with a limit it returns at most limit products and requests no
\* page after limit products were collected.
C26_PagesInOrderUpToLimit ==
  call.fn = "fetch_products" =>
    /\ PagesInOrder(call.ret)
    /\ IF call.args[1] = None
         THEN ReturnsConcatenation(call.ret)
         ELSE LimitKept(call.ret, call.args[1])

-----------------------------------------------------------------------------
(* Runs restricted by --productNo or --limit, and a feed that changes *)

RunDocs ==
  {Product(Str("P1"), "Update", None, None, NameA),
   Product(Str("P2"), "Update", None, None, FullAttributes),
   Product(None, "Update", None, None, NameA)}

\* what the feed answers to a restricted request: the changed products with
\* this productNo, or the first limit of them
Restricted(feed) ==
  {SelectSeq(feed, LAMBDA product : _get_product_no(product) = product_no) :
     product_no \in {Str("P1"), Str("P2"), Str("P3")}}
    \cup {Truncate(feed, limit) : limit \in 1..MaxProducts}

\* main.py lines 59-81 and sync lines 59-63: a run with --productNo or --limit
\* starts and fetches its batch
SyncRestricted ==
  /\ pc \in Stopped
  /\ runs < MaxRuns
  /\ \E since \in {0, 1}, is_dry_run \in BOOLEAN :
       /\ ExportFrom(since, checkpoint) # 0
       /\ export_from' = ExportFrom(since, checkpoint)
       /\ dry_run' = is_dry_run
  /\ started_at' = clock
  /\ clock' = clock + 1
  /\ products' \in Restricted(catalog)
  /\ idx' = 0
  /\ results' = <<>>
  /\ counts' = ZeroCounts
  /\ calls' = <<>>
  /\ last' = NoLocals
  /\ report' = <<>>
  /\ pc' = "loop"
  /\ runs' = runs + 1
  /\ UNCHANGED <<mapping, catalog, feed_changed, dest, checkpoint, mapping_file, call>>

\* a product of the feed is modified while the loop of sync is going: after
\* fetch_products returned and before write_now
FeedChanges ==
  /\ pc = "loop"
  /\ Cardinality(feed_changed) < MaxFeedChanges
  /\ feed_changed' = feed_changed \cup {clock}
  /\ clock' = clock + 1
  /\ UNCHANGED <<mapping, catalog, dest, checkpoint, runs, pc, export_from, dry_run,
                 started_at, products, idx, results, counts, calls, last, report,
                 mapping_file, call>>

NextRuns == Next \/ SyncRestricted \/ FeedChanges

SpecRuns == InitWith(Batches(RunDocs, MaxProducts), {BaseMapping}) /\ [][NextRuns]_vars

\* sync returned its report
Completed == pc = "done" /\ report # <<>>

\* C27: every run of sync that completes with zero failed products writes the
\* checkpoint, whatever else holds of the run: a dry run, a run restricted by
\* productNo or limit that processed part of the changed products, a run
\* whose feed returned no product.
C27_ZeroFailedAlwaysWrites ==
  (Completed /\ report[1].counts.failed = 0) => checkpoint = report[1].finishedAt

\* a dry run restricted to a part of the changed products wrote the checkpoint
C27_RestrictedDryRunWrites ==
  /\ Completed
  /\ dry_run
  /\ 0 < Len(products) /\ Len(products) < Len(catalog)
  /\ report[1].counts.failed = 0
  /\ checkpoint = report[1].finishedAt

\* C28: the checkpoint a successful run writes is the time sampled at the
\* write, after the last product was processed; it is not the start time of
\* the run and not the export_from lower bound, it is not earlier than the
\* time of the fetch, and the lower bound the next run takes from it lies
\* after every feed change made between the fetch and the write.
C28_CheckpointIsWriteTime ==
  (Completed /\ report[1].counts.failed = 0) =>
    /\ checkpoint = clock - 1
    /\ idx = Len(products)
    /\ checkpoint > started_at
    /\ checkpoint # export_from
    /\ \A changed \in feed_changed : changed < ExportFrom(0, checkpoint)

\* the second run takes its lower bound from the checkpoint of the first, and
\* the feed changed while the first run was going
C28_NextRunStartsAfterChange ==
  /\ runs = 2
  /\ pc = "loop"
  /\ export_from = checkpoint
  /\ \E changed \in feed_changed : 2 < changed /\ changed < export_from

-----------------------------------------------------------------------------
(* The write phase is not atomic *)

\* call k of the handler of the last product is a dyn_save or a
\* price_list_update that failed: it raised, or dyn_save answered with a
\* failure that is not a missing field
LaterWriteFailed(k) ==
  \/ /\ last.calls[k].op \in {"dyn_save", "price_list_update"}
     /\ ~last.calls[k].ok
  \/ /\ last.calls[k].op = "dyn_save"
     /\ \E i \in DOMAIN last.dyn_results :
          /\ ~last.dyn_results[i].success
          /\ ~_is_missing_dynamic_field(last.dyn_results[i].message)

\* a write of the same handler before call k went through
EarlierWriteSucceeded(k) ==
  \E j \in 1..(k - 1) :
    /\ last.calls[j].op \in {"product_add_update", "dyn_save"}
    /\ last.calls[j].ok

\* C29: when dyn_save or price_list_update fails after an earlier write of the
\* same product went through, no call follows for that product (none that
\* undoes the earlier write, none of the later writes), the result of the
\* product is update with success false, and the run does not write the
\* checkpoint.
C29_PartialWriteStays ==
  \A k \in DOMAIN last.calls :
    (pc # "raised" /\ idx >= 1 /\ LaterWriteFailed(k) /\ EarlierWriteSucceeded(k)) =>
      /\ k = Len(last.calls)
      /\ \A j \in 1..(k - 1) :
           WriteRank(last.calls[j].op) > 0 =>
             /\ WriteRank(last.calls[j].op) < WriteRank(last.calls[k].op)
             /\ last.calls[j].product_no = last.calls[k].product_no
      /\ results[idx].product_no = last.calls[k].product_no
      /\ results[idx].action = "update"
      /\ ~results[idx].success
      /\ counts.failed >= 1
      /\ pc = "done" => checkpoint < report[1].finishedAt

\* price_list_update failed after product_add_update and dyn_save went
\* through; the product is in the destination with the fields written, and
\* the run has ended without a checkpoint
C29_PriceFailsAfterTwoWrites ==
  /\ pc = "done"
  /\ Len(last.calls) >= 3
  /\ last.calls[Len(last.calls)] = Call("price_list_update", "P2", "", FALSE)
  /\ last.calls[Len(last.calls) - 1] = Call("dyn_save", "P2", "", TRUE)
  /\ last.calls[Len(last.calls) - 2] = Call("product_add_update", "P2", "", TRUE)
  /\ \A c \in CultureSet : dest["P2"].prod[c].found
  /\ ~results[idx].success
  /\ checkpoint = 0

-----------------------------------------------------------------------------
(* The counts of the report *)

\* the number of results of the report that satisfy test
ResultsWith(test(_)) ==
  Cardinality({i \in DOMAIN report[1].products : test(report[1].products[i])})

====
